---------------------------- MODULE Spec2Model ----------------------------
(***************************************************************************)
(* Deck injection and collection merge of the LMS backend                  *)
(* (src/lms/services/deck_injector.py).                                    *)
(*                                                                         *)
(* One behaviour is a sequence of calls of inject_deck_to_class with the   *)
(* same package bytes and the same list of students.  The position of the  *)
(* call is pc; the student being served is student_emails[idx].            *)
(*                                                                         *)
(* A collection file is a record: notes and cards are sets of rows, decks  *)
(* and models are the JSON objects of the col row (functions from id to a  *)
(* descriptor), usn the col row's own column.  The target connection      *)
(* of _import_collection_data works on txn; only Commit copies txn to the  *)
(* file (Python's sqlite3 opens a transaction before the first UPDATE or   *)
(* INSERT and close() without commit() discards it).                       *)
(*                                                                         *)
(* Failure model: every statement run between sqlite3.connect and the       *)
(* return of _import_collection_data may raise (locked file, I/O error,    *)
(* malformed database); the archive's content decides BadZipFile, the      *)
(* missing database and the manifest errors; shutil.copy2 may fail.  The   *)
(* creation of the temporary workspace is taken to succeed.                *)
(***************************************************************************)
EXTENDS Integers, Sequences, FiniteSets, Bags, TLC

\* ------------------------------------------------------------- bounds ----
MaxNotes == 2
MaxCards == 2
MaxStudents == 2
MaxTicks == 1

\* The earliest value of int(time.time() * 1000) in a behaviour.
Clock0 == 10

\* The revlog ids of a collection are 1..MaxRevlog; BatchLimit stands for the
\* LIMIT 10000 of the revlog query; the student moves or deletes a card at
\* most MaxChanges times.
MaxRevlog == 3
BatchLimit == 2
MaxChanges == 1

Guids == {"g1", "g2"}
DeckNames == {"Default", "Demo", "Extra"}
ModelNames == {"Basic", "Cloze"}
Ords == {0, 1}

\* ------------------------------------------------------------ helpers ----
EmptyMap == [x \in {} |-> 0]

MaxOf(S) == IF S = {} THEN 0 ELSE CHOOSE x \in S : \A y \in S : y <= x
MinOf(S) == CHOOSE x \in S : \A y \in S : x <= y

\* The same without the lookup.
Get_Identity(map, k) == k

\* dict.get(k, k)
Get(map, k) == IF k \in DOMAIN map THEN map[k] ELSE k

\* d[k] = v
Put(map, k, v) == (k :> v) @@ map

\* The usn sentinel of the sync protocol.
Sentinel == -1

\* ---------------------------------------------------------- row types ----
Note(id, guid, mid, flds, usn) ==
    [id |-> id, guid |-> guid, mid |-> mid, flds |-> flds, usn |-> usn]

Card(id, nid, did, ord, usn) ==
    [id |-> id, nid |-> nid, did |-> did, ord |-> ord, usn |-> usn]

Desc(name, usn) == [name |-> name, usn |-> usn]

\* The col row's mod column is not kept: nothing here reads it.
Collection(notes, cards, decks, models, usn) ==
    [exists |-> TRUE, notes |-> notes, cards |-> cards, decks |-> decks,
     models |-> models, usn |-> usn]

\* No collection.anki2 in the student's directory.
NoFile == [exists |-> FALSE, notes |-> {}, cards |-> {}, decks |-> EmptyMap,
           models |-> EmptyMap, usn |-> 0]

Ids(rows) == {r.id : r \in rows}

\* SELECT id FROM notes WHERE guid = ?  (table scan: rows come in id order)
NoteIdsByGuid(notes, guid) == {n.id : n \in {m \in notes : m.guid = guid}}

\* SELECT id FROM cards WHERE nid = ? AND ord = ?
CardExists(cards, nid, ord) == \E c \in cards : c.nid = nid /\ c.ord = ord

\* The first key of a JSON object whose descriptor carries the name, or 0.
IdByName(table, name) ==
    LET hits == {k \in DOMAIN table : table[k].name = name}
    IN  IF hits = {} THEN 0 ELSE MinOf(hits)

\* ------------------------------------------------- the merge engine ----
\* The same without the shift.
NewId_Unshifted(old_id, id_offset) == old_id

\* new_id = old_id + id_offset + 1
NewId(old_id, id_offset) == old_id + id_offset + 1

\* if existing_model_id: / if existing_deck:  (0 stands for None)
Found(existing) == existing # 0

\* The same without the test.
IsDefaultDeck_Never(deck_id) == FALSE

\* if deck_id == 1:  the default deck is mapped to itself
IsDefaultDeck(deck_id) == deck_id = 1

\* The same without the guid lookup.
IsDuplicateNote_Never(target_notes, guid) == FALSE

\* The same with a lookup among the rows that are already marked for sync.
IsDuplicateNote_Marked(target_notes, guid) ==
    \E n \in target_notes : n.guid = guid /\ n.usn = Sentinel

\* if existing:  a target note carries the guid of the source note
IsDuplicateNote(target_notes, guid) == NoteIdsByGuid(target_notes, guid) # {}

\* The same without the lookup.
IsDuplicateCard_Never(target_cards, new_nid, ord) == FALSE

\* The same with a lookup by note alone.
IsDuplicateCard_ByNote(target_cards, new_nid, ord) ==
    \E c \in target_cards : c.nid = new_nid

\* The same with a lookup for another ordinal of the note.
IsDuplicateCard_OtherOrd(target_cards, new_nid, ord) ==
    \E c \in target_cards : c.nid = new_nid /\ c.ord # ord

\* if target_cur.fetchone():  a target card has the note and the ordinal
IsDuplicateCard(target_cards, new_nid, ord) == CardExists(target_cards, new_nid, ord)

\* The loop of _import_notetypes over source_models.items(), in key order.
RECURSIVE MergeNotetypes(_, _, _, _, _)
MergeNotetypes(todo, source_models, target_models, max_model_id, model_id_map) ==
    IF todo = {}
    THEN [models |-> target_models, map |-> model_id_map]
    ELSE LET model_id == MinOf(todo)
             model_name == source_models[model_id].name
             existing_model_id == IdByName(target_models, model_name)
             new_model_id == MaxOf({max_model_id, model_id}) + 1
         IN  IF Found(existing_model_id)
             THEN MergeNotetypes(todo \ {model_id}, source_models, target_models,
                                 max_model_id,
                                 Put(model_id_map, model_id, existing_model_id))
             ELSE MergeNotetypes(todo \ {model_id}, source_models,
                                 Put(target_models, new_model_id,
                                     Desc(model_name, Sentinel)),
                                 new_model_id,
                                 Put(model_id_map, model_id, new_model_id))

\* _import_notetypes: the merged models object and model_id_map.
ImportNotetypes(target_models, source_models) ==
    MergeNotetypes(DOMAIN source_models, source_models, target_models,
                   MaxOf(DOMAIN target_models), EmptyMap)

\* The loop of _import_decks over source_decks.items(), in key order.
RECURSIVE MergeDecks(_, _, _, _, _)
MergeDecks(todo, source_decks, target_decks, max_deck_id, deck_id_map) ==
    IF todo = {}
    THEN [decks |-> target_decks, map |-> deck_id_map]
    ELSE LET deck_id == MinOf(todo)
             rest == todo \ {deck_id}
             existing_deck == IdByName(target_decks, source_decks[deck_id].name)
             new_deck_id == max_deck_id + 1
         IN  IF IsDefaultDeck(deck_id)
             THEN MergeDecks(rest, source_decks, target_decks, max_deck_id,
                             Put(deck_id_map, deck_id, 1))
             ELSE IF Found(existing_deck)
             THEN MergeDecks(rest, source_decks,
                             Put(target_decks, existing_deck,
                                 Desc(target_decks[existing_deck].name, Sentinel)),
                             max_deck_id,
                             Put(deck_id_map, deck_id, existing_deck))
             ELSE MergeDecks(rest, source_decks,
                             Put(target_decks, new_deck_id,
                                 Desc(source_decks[deck_id].name, Sentinel)),
                             new_deck_id,
                             Put(deck_id_map, deck_id, new_deck_id))

\* _import_decks: the merged decks object and deck_id_map; now is
\* int(time.time() * 1000).
ImportDecks(target_decks, source_decks, now) ==
    MergeDecks(DOMAIN source_decks, source_decks, target_decks, now, EmptyMap)

\* The loop of _import_notes over the source rows, in id order.  ok is FALSE
\* when an INSERT hits an id that is already a primary key of the target.
RECURSIVE MergeNotes(_, _, _, _, _)
MergeNotes(todo, target_notes, id_offset, model_id_map, note_id_map) ==
    IF todo = {}
    THEN [ok |-> TRUE, notes |-> target_notes, map |-> note_id_map]
    ELSE LET old_id == MinOf(Ids(todo))
             note == CHOOSE n \in todo : n.id = old_id
             new_id == NewId(old_id, id_offset)
             new_mid == Get(model_id_map, note.mid)
         IN  IF IsDuplicateNote(target_notes, note.guid)
             THEN MergeNotes(todo \ {note}, target_notes, id_offset, model_id_map,
                             Put(note_id_map, old_id,
                                 MinOf(NoteIdsByGuid(target_notes, note.guid))))
             ELSE IF new_id \in Ids(target_notes)
             THEN [ok |-> FALSE, notes |-> target_notes,
                   map |-> Put(note_id_map, old_id, new_id)]
             ELSE MergeNotes(todo \ {note},
                             target_notes \cup
                                 {Note(new_id, note.guid, new_mid, note.flds, Sentinel)},
                             id_offset, model_id_map,
                             Put(note_id_map, old_id, new_id))

\* _import_notes: the target's notes after the loop and note_id_map.
ImportNotes(target_notes, source_notes, id_offset, model_id_map) ==
    MergeNotes(source_notes, target_notes, id_offset, model_id_map, EmptyMap)

\* The loop of _import_cards over the source rows, in id order.
RECURSIVE MergeCards(_, _, _, _, _, _)
MergeCards(todo, target_cards, id_offset, note_id_map, deck_id_map, imported) ==
    IF todo = {}
    THEN [ok |-> TRUE, cards |-> target_cards, imported |-> imported]
    ELSE LET old_id == MinOf(Ids(todo))
             card == CHOOSE c \in todo : c.id = old_id
             new_id == NewId(old_id, id_offset)
             new_nid == Get(note_id_map, card.nid)
             new_did == Get(deck_id_map, card.did)
         IN  IF IsDuplicateCard(target_cards, new_nid, card.ord)
             THEN MergeCards(todo \ {card}, target_cards, id_offset, note_id_map,
                             deck_id_map, imported)
             ELSE IF new_id \in Ids(target_cards)
             THEN [ok |-> FALSE, cards |-> target_cards, imported |-> imported]
             ELSE MergeCards(todo \ {card},
                             target_cards \cup
                                 {Card(new_id, new_nid, new_did, card.ord, Sentinel)},
                             id_offset, note_id_map, deck_id_map, imported + 1)

\* _import_cards: the target's cards after the loop and the count returned.
ImportCards(target_cards, source_cards, id_offset, note_id_map, deck_id_map) ==
    MergeCards(source_cards, target_cards, id_offset, note_id_map, deck_id_map, 0)

\* The same without the UPDATE.
ResetUsn_Skip(rows) == rows

\* UPDATE cards/notes SET usn = -1 WHERE usn >= 0
ResetUsn(rows) ==
    {IF r.usn >= 0 THEN [r EXCEPT !.usn = Sentinel] ELSE r : r \in rows}

\* ------------------------------------------------------------- state ----
VARIABLES
    student_emails,   \* the list given to inject_deck_to_class
    apkg,             \* the archive given to it (deck_apkg_content)
    rclone,           \* whether /mnt/ankivn-media exists
    col,              \* student -> collection.anki2 as committed on disk
    media_dir,        \* student -> collection.media
    web_media_dir,    \* student -> files under MEDIA_ROOT/students/<email>
    idx,              \* position of the for loop in student_emails
    pc,               \* position inside the call
    ret,              \* what inject_apkg returned for the current student
    results,          \* the dict built by inject_deck_to_class
    source_db,        \* the database file chosen from the archive
    media_mapping,    \* what json.load gave for the media entry
    media_copied,
    txn,              \* the target as seen by target_conn
    max_note_id,
    max_card_id,
    model_id_map,
    deck_id_map,
    note_id_map,
    cards_imported,
    pre,              \* history: the current student's files when inject_apkg began
    raised_at,        \* history: the statement of the merge that raised, or "none"
    connected,        \* history: students whose collection got a sqlite3.connect
    merged,           \* history: students with a committed merge of this package
    extracted,        \* history: students for whom zf.extractall ran
    commits,          \* history: transactions that inject_apkg committed on the target
    w_col,            \* concurrent requests: the one student's collection.anki2
    w_pkg,            \* request -> the package database it injects
    w_pc,             \* request -> position inside inject_apkg
    w_view,           \* request -> the locals of _import_collection_data
    w_txn,            \* request -> the target as seen by its target_conn
    w_lock,           \* the request whose connection holds the write lock, or 0
    w_ret,            \* request -> what inject_apkg returned
    a_col,            \* analytics: the student's live collection.anki2
    lms_titles,       \* analytics: Deck.objects.values_list('title')
    mirror,           \* analytics: the AnkiRevlog table, a bag of rows
    a_pc,             \* caller -> position inside sync_revlog
    a_loc,            \* caller -> the locals of sync_revlog
    a_ret,            \* caller -> what sync_revlog returned
    a_failed,         \* history: caller -> how the read of the collection failed
    a_changes,        \* history: changes of cards made by the student so far
    a_lock,           \* analytics: the SQLite locks held on the collection file
    a_unclosed,       \* history: caller -> its connection was open when it returned
    u_file,           \* accounts: the sync-users file as it is on disk
    u_flock,          \* accounts: the process that holds flock(LOCK_EX) on it, or 0
    u_proc            \* accounts: process -> its position, locals and unflushed writes

input == <<student_emails, apkg, rclone>>
files == <<col, media_dir, web_media_dir>>
loop == <<idx, results>>
reader == <<source_db, media_mapping, media_copied>>
locals == <<max_note_id, max_card_id, model_id_map, deck_id_map, note_id_map,
            cards_imported>>
history == <<pre, raised_at, connected, merged, extracted, commits>>
\* The state of one inject_deck_to_class call.
batch == <<input, files, loop, pc, ret, reader, txn, locals, history>>
\* The state of the requests that inject into one collection at the same time.
requests == <<w_col, w_pkg, w_pc, w_view, w_txn, w_lock, w_ret>>
\* The state of the revlog reader and of what it reads and writes.
analytics == <<a_col, lms_titles, mirror, a_pc, a_loc, a_ret, a_failed, a_changes,
               a_lock, a_unclosed>>
\* The state of the calls that manage the users of the sync server.
accounts == <<u_file, u_flock, u_proc>>
vars == <<batch, requests, analytics, accounts>>

\* The student served by the current iteration.
email == student_emails[idx]

\* ------------------------------------------------------ return values ----
Outcome(ok, kind, cards, media) ==
    [ok |-> ok, kind |-> kind, cards |-> cards, media |-> media]

NoOutcome == Outcome(FALSE, "none", 0, 0)

\* return False, f"Student {email} has not synced yet"
NotSynced == Outcome(FALSE, "not_synced", 0, 0)
\* return False, "Invalid .apkg file (not a valid zip)"
InvalidApkg == Outcome(FALSE, "bad_zip", 0, 0)
\* return False, "No collection database found in .apkg"
NoDatabase == Outcome(FALSE, "no_db", 0, 0)
\* return False, f"Database error: {e}"
DatabaseError == Outcome(FALSE, "db_error", 0, 0)
\* return False, str(e)   (the handler of inject_apkg)
Uncaught == Outcome(FALSE, "exception", 0, 0)
\* return True, f"Imported {cards_imported} cards, {media_copied} media files"
Imported(cards, media) == Outcome(TRUE, "imported", cards, media)

\* --------------------------------------------------------- the archive ----
MediaEntry(num, name, isstr) == [num |-> num, name |-> name, isstr |-> isstr]

\* kind says what the archive holds under the name media: nothing
\* ("missing"), bytes json.load rejects ("invalid_json"), bytes that are not
\* UTF-8 ("undecodable"), JSON that is no object ("not_object"), or an object.
Manifest(kind, entries) == [kind |-> kind, entries |-> entries]

\* zip says whether zipfile.ZipFile reads the bytes (it looks for the end of
\* central directory record, so bytes in front of the archive do not matter);
\* small says the bytes are fewer than a package can be, magic that they
\* begin with b'PK'.
Package(zip, anki2, anki21, media, payloads) ==
    [zip |-> zip, anki2 |-> anki2, anki21 |-> anki21, media |-> media,
     payloads |-> payloads, small |-> FALSE, magic |-> TRUE]

\* The same entries in bytes of another size and beginning.
Framed(pkg, small, magic) == [pkg EXCEPT !.small = small, !.magic = magic]

\* The same without candidate.exists(): sqlite3.connect makes an empty file.
FindSourceDb_Create(pkg) ==
    IF pkg.anki21.exists THEN pkg.anki21
    ELSE IF pkg.anki2.exists THEN pkg.anki2
    ELSE [NoFile EXCEPT !.exists = TRUE]

\* for name in ['collection.anki21', 'collection.anki2']: the first that exists
FindSourceDb(pkg) ==
    IF pkg.anki21.exists THEN pkg.anki21
    ELSE IF pkg.anki2.exists THEN pkg.anki2
    ELSE NoFile

\* The value of media_mapping after the try block around json.load.
Mapping(isdict, entries) == [isdict |-> isdict, entries |-> entries]

ParsedMapping(manifest) ==
    CASE manifest.kind = "object" -> Mapping(TRUE, manifest.entries)
      [] manifest.kind = "not_object" -> Mapping(FALSE, {})
      [] OTHER -> Mapping(TRUE, {})

Dir(kind, content) == [kind |-> kind, files |-> content]

\* The locals of inject_apkg and of the functions it calls, before they are set.
NoLocals ==
    /\ source_db = NoFile
    /\ media_mapping = Mapping(TRUE, {})
    /\ media_copied = 0
    /\ txn = NoFile
    /\ max_note_id = 0
    /\ max_card_id = 0
    /\ model_id_map = EmptyMap
    /\ deck_id_map = EmptyMap
    /\ note_id_map = EmptyMap
    /\ cards_imported = 0

\* ------------------------------------------------------ initial states ----
DefaultDecks == (1 :> Desc("Default", 0))
BasicModels == (1 :> Desc("Basic", 0))

\* A collection right after the student's first sync.
EmptyTarget == Collection({}, {}, DefaultDecks, BasicModels, 0)

\* A collection with one synced note and cards of it for some ordinals.
OneNoteTarget(id, ords, did, decks) ==
    Collection({Note(id, "g1", 1, "tgt", 0)},
               {Card(o + 1, id, did, o, 0) : o \in ords}, decks, BasicModels, 0)

\* The rows of a package database: ids 1..k, any guids, any note references
\* (also of notes the package does not hold), any ordinals.
SourceNotes ==
    UNION {{{Note(i, g[i], 1, "src", 0) : i \in 1..k} : g \in [1..k -> Guids]}
           : k \in 0..MaxNotes}

SourceCards(did) ==
    UNION {{{Card(i, c[i].nid, did, c[i].ord, 0) : i \in 1..k}
            : c \in [1..k -> [nid : 1..MaxNotes, ord : Ords]]}
           : k \in 0..MaxCards}

\* Deck tables of a package: deck 1 and at most one more, names distinct.
SourceDeckTables ==
    {(1 :> Desc(n, 0)) : n \in DeckNames} \cup
    {(1 :> Desc(n, 0)) @@ (2 :> Desc(m, 0)) :
        <<n, m>> \in {p \in DeckNames \X DeckNames : p[1] # p[2]}}

SourceModelTables == {(1 :> Desc(n, 0)) : n \in ModelNames}

DemoDecks == DefaultDecks @@ (2 :> Desc("Demo", 0))

\* A deck made by an earlier merge at the first clock value.
EarlierDecks == DefaultDecks @@ ((Clock0 + 1) :> Desc("Demo", -1))

NoManifest == Manifest("missing", {})

PlainPackage(db) == Package(TRUE, db, NoFile, NoManifest, {})

SmallSource(guid) ==
    Collection({Note(1, guid, 1, "src", 0)}, {Card(1, 1, 1, 0, 0)},
               DefaultDecks, BasicModels, 0)

Manifests ==
    {Manifest(k, {}) : k \in {"missing", "invalid_json", "undecodable", "not_object"}}
    \cup {Manifest("object", e) :
            e \in SUBSET {MediaEntry("0", "a.jpg", TRUE), MediaEntry("1", "", FALSE)}}

\* Archives of unusual size or beginning: bytes that are no zip (truncated
\* or not), the zip without entries (22 bytes), a zip behind other bytes.
OddlyFramed ==
    {Framed(Package(FALSE, NoFile, NoFile, NoManifest, {}), small, magic) :
        small \in BOOLEAN, magic \in BOOLEAN}
    \cup {Framed(PlainPackage(NoFile), TRUE, TRUE),
          Framed(PlainPackage(SmallSource("g1")), FALSE, FALSE)}

NoSnapshot == [col |-> NoFile, media |-> Dir("absent", {})]

Idle ==
    /\ idx = 1
    /\ pc = "inject"
    /\ ret = NoOutcome
    /\ results = EmptyMap
    /\ NoLocals
    /\ pre = NoSnapshot
    /\ raised_at = "none"
    /\ connected = {}
    /\ merged = {}
    /\ extracted = {}
    /\ commits = 0
    /\ web_media_dir = [s \in DOMAIN col |-> {}]

\* One student; packages and targets that differ in their notes and cards.
InitNotes ==
    /\ student_emails = <<1>>
    /\ col \in {<<EmptyTarget>>} \cup
               {<<OneNoteTarget(1, ords, 1, DefaultDecks)>> : ords \in SUBSET Ords}
    /\ \E notes \in SourceNotes, decks \in {DefaultDecks, DemoDecks} :
          \E cards \in SourceCards(MaxOf(DOMAIN decks)) :
             apkg = PlainPackage(Collection(notes, cards, decks, BasicModels, 0))
    /\ rclone = FALSE
    /\ media_dir = <<Dir("absent", {})>>

\* One student; packages and targets that differ in their decks and notetypes;
\* the note of the package has an id as Anki gives it or a negative one.
InitTables ==
    /\ student_emails = <<1>>
    /\ \E decks \in {DefaultDecks, EarlierDecks} :
          col \in {<<EmptyTarget>>} \cup
                  {<<OneNoteTarget(1, {0}, did, decks)>> : did \in DOMAIN decks}
    /\ \E guid \in Guids, mid \in 1..2, did \in 1..2, decks \in SourceDeckTables,
          models \in SourceModelTables, nid \in {1, -2} :
          apkg = PlainPackage(Collection({Note(nid, guid, mid, "src", 0)},
                                         {Card(1, nid, did, 0, 0)}, decks, models, 0))
    /\ rclone = FALSE
    /\ media_dir = <<Dir("absent", {})>>

\* One student; archives that differ in their entries.
InitArchive ==
    /\ student_emails = <<1>>
    /\ col = <<EmptyTarget>>
    /\ \E zip \in BOOLEAN, anki2 \in {NoFile, SmallSource("g1")},
          anki21 \in {NoFile, SmallSource("g2")}, media \in Manifests,
          payloads \in {{}, {"0", "1"}} :
          /\ ~zip => (anki2 = NoFile /\ anki21 = NoFile /\ payloads = {}
                      /\ media = NoManifest)
          /\ apkg \in {Package(zip, anki2, anki21, media, payloads)} \cup OddlyFramed
    /\ \/ rclone = FALSE /\ media_dir \in {<<Dir("absent", {})>>, <<Dir("dir", {"old.jpg"})>>}
       \/ rclone = TRUE /\ media_dir \in {<<Dir("absent", {})>>, <<Dir("dir", {"old.jpg"})>>,
                                         <<Dir("symlink", {})>>}

\* Several students, some of whom have never synced.
InitBatch ==
    /\ \E n \in 2..MaxStudents :
          /\ student_emails = [i \in 1..n |-> i]
          /\ col \in [1..n -> {NoFile, EmptyTarget, OneNoteTarget(1, {0}, 1, DefaultDecks)}]
          /\ media_dir = [i \in 1..n |-> Dir("absent", {})]
    /\ apkg \in {PlainPackage(SmallSource("g1")),
                 PlainPackage(NoFile),
                 Package(FALSE, NoFile, NoFile, NoManifest, {}),
                 Package(TRUE, SmallSource("g1"), NoFile, Manifest("not_object", {}), {}),
                 Package(TRUE, SmallSource("g1"), NoFile,
                         Manifest("object", {MediaEntry("0", "a.jpg", TRUE)}), {"0"})}
    /\ rclone = FALSE

\* No request of the concurrent kind is under way.
NoRequests ==
    /\ w_col = NoFile
    /\ w_pkg = EmptyMap
    /\ w_pc = EmptyMap
    /\ w_view = EmptyMap
    /\ w_txn = EmptyMap
    /\ w_lock = 0
    /\ w_ret = EmptyMap

\* The locks of SQLite on a database file: writer says that a connection
\* holds the write lock, shared is the set of connections with a read lock.
NoLocks == [writer |-> FALSE, shared |-> {}]

\* No call that manages the users of the sync server is under way.
NoAccounts ==
    /\ u_file = [exists |-> FALSE, lines |-> <<>>]
    /\ u_flock = 0
    /\ u_proc = EmptyMap

\* No sync_revlog call is under way and nothing is mirrored.
NoAnalytics ==
    /\ a_col = [exists |-> FALSE, decks |-> EmptyMap, cards |-> EmptyMap, revlog |-> {}]
    /\ lms_titles = {}
    /\ mirror = EmptyBag
    /\ a_pc = EmptyMap
    /\ a_loc = EmptyMap
    /\ a_ret = EmptyMap
    /\ a_failed = EmptyMap
    /\ a_changes = 0
    /\ a_lock = NoLocks
    /\ a_unclosed = EmptyMap

Init == NoRequests /\ NoAnalytics /\ NoAccounts /\ (InitNotes \/ InitTables \/ InitArchive \/ InitBatch) /\ Idle

\* ------------------------------------------------------------ actions ----
\* inject_apkg returns value; the locals of the call are dropped and the
\* connections are closed.
Return(value) ==
    /\ ret' = value
    /\ pc' = "returned"
    /\ source_db' = NoFile
    /\ media_mapping' = Mapping(TRUE, {})
    /\ media_copied' = 0
    /\ txn' = NoFile
    /\ max_note_id' = 0
    /\ max_card_id' = 0
    /\ model_id_map' = EmptyMap
    /\ deck_id_map' = EmptyMap
    /\ note_id_map' = EmptyMap
    /\ cards_imported' = 0

\* The state recorded when inject_apkg is entered.
Enter ==
    /\ pre' = [col |-> col[email], media |-> media_dir[email]]
    /\ commits' = 0
    /\ UNCHANGED raised_at

\* The same with the media directory made before the test.
NotYetSynced_Creates ==
    /\ pc = "inject"
    /\ ~col[email].exists
    /\ Enter
    /\ media_dir' = [media_dir EXCEPT ![email] = Dir("dir", {})]
    /\ Return(NotSynced)
    /\ UNCHANGED <<requests, analytics, accounts, input, col, web_media_dir, loop, connected, merged, extracted>>

\* inject_apkg: if not self.student_has_collection(): return False, ...
NotYetSynced ==
    /\ pc = "inject"
    /\ ~col[email].exists
    /\ Enter
    /\ Return(NotSynced)
    /\ UNCHANGED <<requests, analytics, accounts, input, files, loop, connected, merged, extracted>>

\* inject_apkg writes deck.apkg; _inject_from_apkg: zipfile.BadZipFile
ExtractBadZip ==
    /\ pc = "inject"
    /\ col[email].exists
    /\ ~apkg.zip
    /\ Enter
    /\ Return(InvalidApkg)
    /\ UNCHANGED <<requests, analytics, accounts, input, files, loop, connected, merged, extracted>>

\* inject_apkg writes deck.apkg; _inject_from_apkg: zf.extractall(extract_dir)
Extract ==
    /\ pc = "inject"
    /\ col[email].exists
    /\ apkg.zip
    /\ Enter
    /\ extracted' = extracted \cup {email}
    /\ pc' = "find_db"
    /\ UNCHANGED <<requests, analytics, accounts, input, files, loop, ret, reader, txn, locals, connected, merged>>

\* if not source_db: return False, "No collection database found in .apkg"
NoCollectionDatabase ==
    /\ pc = "find_db"
    /\ ~FindSourceDb(apkg).exists
    /\ Return(NoDatabase)
    /\ UNCHANGED <<requests, analytics, accounts, input, files, loop, history>>

\* source_db found; the media entry is read: a missing entry and a
\* JSONDecodeError leave media_mapping = {}.
ParseMedia ==
    /\ pc = "find_db"
    /\ FindSourceDb(apkg).exists
    /\ apkg.media.kind # "undecodable"
    /\ source_db' = FindSourceDb(apkg)
    /\ media_mapping' = ParsedMapping(apkg.media)
    /\ pc' = "ensure_media"
    /\ UNCHANGED <<requests, analytics, accounts, input, files, loop, ret, media_copied, txn, locals, history>>

\* source_db found; open(media_file, encoding='utf-8') raises UnicodeDecodeError,
\* which the except clause does not name: inject_apkg returns False, str(e).
ParseMediaRaises ==
    /\ pc = "find_db"
    /\ FindSourceDb(apkg).exists
    /\ apkg.media.kind = "undecodable"
    /\ Return(Uncaught)
    /\ UNCHANGED <<requests, analytics, accounts, input, files, loop, history>>

\* _ensure_media_symlink
EnsureMediaSymlink ==
    /\ pc = "ensure_media"
    /\ LET d == media_dir[email]
       IN  \/ /\ ~rclone
              /\ media_dir' = [media_dir EXCEPT ![email] =
                                  IF d.kind = "absent" THEN Dir("dir", {}) ELSE d]
           \/ /\ rclone
              /\ d.kind = "symlink"
              /\ UNCHANGED media_dir
           \/ /\ rclone
              /\ d.kind # "symlink"
              \* existing files are moved to the mount, then symlink_to
              /\ media_dir' = [media_dir EXCEPT ![email] = Dir("symlink", d.files)]
           \/ /\ rclone
              /\ d.kind # "symlink"
              \* symlink_to fails: mkdir of an empty local directory
              /\ media_dir' = [media_dir EXCEPT ![email] = Dir("dir", {})]
    /\ pc' = "copy_media"
    /\ UNCHANGED <<requests, analytics, accounts, input, col, web_media_dir, loop, ret, reader, txn, locals, history>>

\* The manifest entries whose payload was extracted (source_file.exists()).
Extracted == {e \in media_mapping.entries : e.num \in apkg.payloads}

\* media_mapping.items() on a value that is no dict, or media_dir / actual_name
\* on a name that is no string.
CopyWillRaise == ~media_mapping.isdict \/ \E e \in Extracted : ~e.isstr

\* The copy loop; each shutil.copy2 may fail and is then only logged.
CopyMedia ==
    /\ pc = "copy_media"
    /\ ~CopyWillRaise
    /\ \E done \in SUBSET Extracted :
          /\ media_dir' = [media_dir EXCEPT ![email].files = @ \cup {e.name : e \in done}]
          /\ media_copied' = Cardinality(done)
    /\ pc' = "open"
    /\ UNCHANGED <<requests, analytics, accounts, input, col, web_media_dir, loop, ret, source_db, media_mapping, txn,
                   locals, history>>

\* The copy loop ends in AttributeError or TypeError, after the entries that
\* came first were copied; inject_apkg returns False, str(e).
CopyMediaRaises ==
    /\ pc = "copy_media"
    /\ CopyWillRaise
    /\ \E done \in SUBSET {e \in Extracted : e.isstr} :
          media_dir' = [media_dir EXCEPT ![email].files = @ \cup {e.name : e \in done}]
    /\ Return(Uncaught)
    /\ UNCHANGED <<requests, analytics, accounts, input, col, web_media_dir, loop, history>>

\* _import_collection_data: both connections, COUNT(*), MAX(id) of notes and cards
OpenConnections ==
    /\ pc = "open"
    /\ txn' = col[email]
    /\ connected' = connected \cup {email}
    /\ max_note_id' = MaxOf(Ids(col[email].notes))
    /\ max_card_id' = MaxOf(Ids(col[email].cards))
    /\ model_id_map' = EmptyMap
    /\ deck_id_map' = EmptyMap
    /\ note_id_map' = EmptyMap
    /\ cards_imported' = 0
    /\ pc' = "notetypes"
    /\ UNCHANGED <<requests, analytics, accounts, input, files, loop, ret, reader, pre, raised_at, merged, extracted,
                   commits>>

\* model_id_map = self._import_notetypes(source_cur, target_cur)
MergeNotetypesStep ==
    /\ pc = "notetypes"
    /\ LET r == ImportNotetypes(txn.models, source_db.models)
       IN  /\ txn' = [txn EXCEPT !.models = r.models]
           /\ model_id_map' = r.map
    /\ pc' = "decks"
    /\ UNCHANGED <<requests, analytics, accounts, input, files, loop, ret, reader, max_note_id, max_card_id,
                   deck_id_map, note_id_map, cards_imported, history>>

\* deck_id_map = self._import_decks(source_cur, target_cur)
MergeDecksStep ==
    /\ pc = "decks"
    /\ \E now \in Clock0 .. Clock0 + MaxTicks :
          LET r == ImportDecks(txn.decks, source_db.decks, now)
          IN  /\ txn' = [txn EXCEPT !.decks = r.decks]
              /\ deck_id_map' = r.map
    /\ pc' = "notes"
    /\ UNCHANGED <<requests, analytics, accounts, input, files, loop, ret, reader, max_note_id, max_card_id,
                   model_id_map, note_id_map, cards_imported, history>>

\* note_id_map = self._import_notes(source_cur, target_cur, max_note_id, model_id_map)
MergeNotesStep ==
    /\ pc = "notes"
    /\ LET r == ImportNotes(txn.notes, source_db.notes, max_note_id, model_id_map)
       IN  /\ r.ok
           /\ txn' = [txn EXCEPT !.notes = r.notes]
           /\ note_id_map' = r.map
    /\ pc' = "cards"
    /\ UNCHANGED <<requests, analytics, accounts, input, files, loop, ret, reader, max_note_id, max_card_id,
                   model_id_map, deck_id_map, cards_imported, history>>

\* cards_imported = self._import_cards(source_cur, target_cur, max_card_id, ...)
MergeCardsStep ==
    /\ pc = "cards"
    /\ LET r == ImportCards(txn.cards, source_db.cards, max_card_id, note_id_map,
                            deck_id_map)
       IN  /\ r.ok
           /\ txn' = [txn EXCEPT !.cards = r.cards]
           /\ cards_imported' = r.imported
    /\ pc' = "usn_reset"
    /\ UNCHANGED <<requests, analytics, accounts, input, files, loop, ret, reader, max_note_id, max_card_id,
                   model_id_map, deck_id_map, note_id_map, history>>

\* The three UPDATE statements that reset usn.
SyncTrigger ==
    /\ pc = "usn_reset"
    /\ txn' = [txn EXCEPT !.cards = ResetUsn(@), !.notes = ResetUsn(@),
                          !.usn = Sentinel]
    /\ pc' = "commit"
    /\ UNCHANGED <<requests, analytics, accounts, input, files, loop, ret, reader, locals, history>>

\* target_conn.commit()
Commit ==
    /\ pc = "commit"
    /\ col' = [col EXCEPT ![email] = txn]
    /\ merged' = merged \cup {email}
    /\ commits' = commits + 1
    /\ pc' = "final_count"
    /\ UNCHANGED <<requests, analytics, accounts, input, media_dir, web_media_dir, loop, ret, reader, txn, locals,
                   pre, raised_at, connected, extracted>>

\* SELECT COUNT(*) FROM cards; return cards_imported; finally: both close()
FinalCount ==
    /\ pc = "final_count"
    /\ txn' = NoFile
    /\ pc' = "update_media"
    /\ UNCHANGED <<requests, analytics, accounts, input, files, loop, ret, reader, locals, history>>

MergePcs == {"open", "notetypes", "decks", "notes", "cards", "usn_reset", "commit",
             "final_count"}

\* The same with a commit in the finally block.
StatementRaises_Commits ==
    /\ pc \in MergePcs
    /\ raised_at' = pc
    /\ connected' = connected \cup {email}
    /\ col' = [col EXCEPT ![email] = IF txn.exists THEN txn ELSE @]
    /\ Return(DatabaseError)
    /\ UNCHANGED <<requests, analytics, accounts, input, media_dir, web_media_dir, loop, pre, merged, extracted,
                   commits>>

\* A statement of _import_collection_data raises (an INSERT that meets an
\* existing primary key does so always): finally closes both connections
\* without commit, _inject_from_apkg returns the database error.
StatementRaises ==
    /\ pc \in MergePcs
    /\ raised_at' = pc
    /\ connected' = connected \cup {email}
    /\ Return(DatabaseError)
    /\ UNCHANGED <<requests, analytics, accounts, input, files, loop, pre, merged, extracted, commits>>

\* _update_media_database, then return True, f"Imported ..."
UpdateMediaDatabase ==
    /\ pc = "update_media"
    /\ LET d == media_dir[email]
       IN  IF d.kind = "absent" \/ d.files = {}
           THEN UNCHANGED <<col, web_media_dir, connected, commits>>
           ELSE /\ \/ /\ col' = [col EXCEPT ![email].usn = Sentinel]
                      /\ commits' = commits + 1     \* conn.commit()
                   \/ UNCHANGED <<col, commits>>   \* the UPDATE fails and is only logged
                /\ connected' = connected \cup {email}
                /\ IF d.kind = "symlink"
                   THEN UNCHANGED web_media_dir
                   ELSE \E synced \in SUBSET d.files :
                           web_media_dir' = [web_media_dir EXCEPT ![email] = @ \cup synced]
    /\ Return(Imported(cards_imported, media_copied))
    /\ UNCHANGED <<requests, analytics, accounts, input, media_dir, loop, pre, raised_at, merged, extracted>>

\* The same with a loop that ends at the first failure.
RecordResult_Abort ==
    /\ pc = "returned"
    /\ results' = Put(results, email, ret)
    /\ IF idx < Len(student_emails) /\ ret.ok
       THEN idx' = idx + 1 /\ pc' = "inject"
       ELSE idx' = idx /\ pc' = "done"
    /\ ret' = NoOutcome
    /\ pre' = NoSnapshot
    /\ raised_at' = "none"
    /\ UNCHANGED <<requests, analytics, accounts, input, files, reader, txn, locals, connected, merged, extracted,
                   commits>>

\* inject_deck_to_class: results[email] = (success, message); next student
RecordResult ==
    /\ pc = "returned"
    /\ results' = Put(results, email, ret)
    /\ IF idx < Len(student_emails)
       THEN idx' = idx + 1 /\ pc' = "inject"
       ELSE idx' = idx /\ pc' = "done"
    /\ ret' = NoOutcome
    /\ pre' = NoSnapshot
    /\ raised_at' = "none"
    /\ UNCHANGED <<requests, analytics, accounts, input, files, reader, txn, locals, connected, merged, extracted,
                   commits>>

\* inject_deck_to_class has returned results; the same deck is injected again
\* to the same students.
CallAgain ==
    /\ pc = "done"
    /\ idx' = 1
    /\ results' = EmptyMap
    /\ pc' = "inject"
    /\ UNCHANGED <<requests, analytics, accounts, input, files, ret, reader, txn, locals, history>>

Next ==
    \/ NotYetSynced
    \/ ExtractBadZip
    \/ Extract
    \/ NoCollectionDatabase
    \/ ParseMedia
    \/ ParseMediaRaises
    \/ EnsureMediaSymlink
    \/ CopyMedia
    \/ CopyMediaRaises
    \/ OpenConnections
    \/ MergeNotetypesStep
    \/ MergeDecksStep
    \/ MergeNotesStep
    \/ MergeCardsStep
    \/ SyncTrigger
    \/ Commit
    \/ FinalCount
    \/ StatementRaises
    \/ UpdateMediaDatabase
    \/ RecordResult
    \/ CallAgain

Spec == Init /\ [][Next]_vars

\* ------------------------------------------- concurrent injections ----
\* Two requests (views.py calls inject_deck_to_student for each) inject into
\* the collection of one student at the same time, each with its own
\* DeckInjector, temporary directory and connections.  The code takes no lock
\* of its own; what orders the requests is the write lock of SQLite alone:
\* the first INSERT or UPDATE of a connection begins its transaction and takes
\* the lock, commit and close release it, a statement that does not get the
\* lock within the timeout raises, and a connection outside a transaction
\* reads what is committed.
Workers == {1, 2}

\* The locals of _import_collection_data and of _import_notetypes.
View(max_n, max_c, target_models, models, decks, notes, imported) ==
    [max_note_id |-> max_n, max_card_id |-> max_c, target_models |-> target_models,
     model_id_map |-> models, deck_id_map |-> decks, note_id_map |-> notes,
     cards_imported |-> imported]

NoView == View(0, 0, EmptyMap, EmptyMap, EmptyMap, EmptyMap, 0)

\* Packages of one note and one card in a second deck.
WorkerSources ==
    {Collection({Note(1, g, 1, "src", 0)}, {Card(1, 1, 2, 0, 0)},
                DefaultDecks @@ (2 :> Desc(d, 0)), (1 :> Desc(m, 0)), 0) :
        g \in Guids, d \in {"Demo", "Extra"}, m \in ModelNames}

\* The batch call of the other specification, at rest.
NoBatch ==
    /\ student_emails = <<1>>
    /\ apkg = PlainPackage(NoFile)
    /\ rclone = FALSE
    /\ col = <<NoFile>>
    /\ media_dir = <<Dir("absent", {})>>
    /\ Idle

InitRequests ==
    /\ w_col \in {EmptyTarget, OneNoteTarget(1, {0}, 1, DefaultDecks)}
    /\ w_pkg \in [Workers -> WorkerSources]
    /\ w_pc = [p \in Workers |-> "inject"]
    /\ w_view = [p \in Workers |-> NoView]
    /\ w_txn = [p \in Workers |-> NoFile]
    /\ w_lock = 0
    /\ w_ret = [p \in Workers |-> NoOutcome]
    /\ NoBatch
    /\ NoAnalytics
    /\ NoAccounts

\* inject_apkg up to the media mapping: the collection exists, the archive is
\* extracted into the request's own temporary directory.
W_Extract(p) ==
    /\ w_pc[p] = "inject"
    /\ w_col.exists
    /\ w_pc' = [w_pc EXCEPT ![p] = "copy_media"]
    /\ UNCHANGED <<batch, analytics, accounts, w_col, w_pkg, w_view, w_txn, w_lock, w_ret>>

\* _ensure_media_symlink and the copy loop (the packages here have no media)
W_CopyMedia(p) ==
    /\ w_pc[p] = "copy_media"
    /\ w_pc' = [w_pc EXCEPT ![p] = "open"]
    /\ UNCHANGED <<batch, analytics, accounts, w_col, w_pkg, w_view, w_txn, w_lock, w_ret>>

\* sqlite3.connect, COUNT(*), MAX(id) of notes and cards: reads of what is
\* committed, outside a transaction.
W_OpenConnections(p) ==
    /\ w_pc[p] = "open"
    /\ w_view' = [w_view EXCEPT ![p] =
                     [NoView EXCEPT !.max_note_id = MaxOf(Ids(w_col.notes)),
                                    !.max_card_id = MaxOf(Ids(w_col.cards))]]
    /\ w_pc' = [w_pc EXCEPT ![p] = "read_models"]
    /\ UNCHANGED <<batch, analytics, accounts, w_col, w_pkg, w_txn, w_lock, w_ret>>

\* _import_notetypes: SELECT models FROM col, still outside a transaction
W_ReadModels(p) ==
    /\ w_pc[p] = "read_models"
    /\ w_view' = [w_view EXCEPT ![p].target_models = w_col.models]
    /\ w_pc' = [w_pc EXCEPT ![p] = "notetypes"]
    /\ UNCHANGED <<batch, analytics, accounts, w_col, w_pkg, w_txn, w_lock, w_ret>>

\* _import_notetypes: the loop, then UPDATE col SET models = ?, which begins
\* the transaction on what is committed by then and writes the object built
\* from what was read before.
W_MergeNotetypes(p) ==
    /\ w_pc[p] = "notetypes"
    /\ w_lock = 0
    /\ w_lock' = p
    /\ LET r == ImportNotetypes(w_view[p].target_models, w_pkg[p].models)
       IN  /\ w_txn' = [w_txn EXCEPT ![p] = [w_col EXCEPT !.models = r.models]]
           /\ w_view' = [w_view EXCEPT ![p].model_id_map = r.map]
    /\ w_pc' = [w_pc EXCEPT ![p] = "decks"]
    /\ UNCHANGED <<batch, analytics, accounts, w_col, w_pkg, w_ret>>

\* _import_decks, inside the transaction
W_MergeDecks(p) ==
    /\ w_pc[p] = "decks"
    /\ \E now \in Clock0 .. Clock0 + MaxTicks :
          LET r == ImportDecks(w_txn[p].decks, w_pkg[p].decks, now)
          IN  /\ w_txn' = [w_txn EXCEPT ![p].decks = r.decks]
              /\ w_view' = [w_view EXCEPT ![p].deck_id_map = r.map]
    /\ w_pc' = [w_pc EXCEPT ![p] = "notes"]
    /\ UNCHANGED <<batch, analytics, accounts, w_col, w_pkg, w_lock, w_ret>>

\* _import_notes with the max_note_id read when the connection was opened
W_MergeNotes(p) ==
    /\ w_pc[p] = "notes"
    /\ LET r == ImportNotes(w_txn[p].notes, w_pkg[p].notes, w_view[p].max_note_id,
                            w_view[p].model_id_map)
       IN  /\ r.ok
           /\ w_txn' = [w_txn EXCEPT ![p].notes = r.notes]
           /\ w_view' = [w_view EXCEPT ![p].note_id_map = r.map]
    /\ w_pc' = [w_pc EXCEPT ![p] = "cards"]
    /\ UNCHANGED <<batch, analytics, accounts, w_col, w_pkg, w_lock, w_ret>>

\* _import_cards with the max_card_id read when the connection was opened
W_MergeCards(p) ==
    /\ w_pc[p] = "cards"
    /\ LET r == ImportCards(w_txn[p].cards, w_pkg[p].cards, w_view[p].max_card_id,
                            w_view[p].note_id_map, w_view[p].deck_id_map)
       IN  /\ r.ok
           /\ w_txn' = [w_txn EXCEPT ![p].cards = r.cards]
           /\ w_view' = [w_view EXCEPT ![p].cards_imported = r.imported]
    /\ w_pc' = [w_pc EXCEPT ![p] = "usn_reset"]
    /\ UNCHANGED <<batch, analytics, accounts, w_col, w_pkg, w_lock, w_ret>>

\* The three UPDATE statements that reset usn.
W_SyncTrigger(p) ==
    /\ w_pc[p] = "usn_reset"
    /\ w_txn' = [w_txn EXCEPT ![p] = [@ EXCEPT !.cards = ResetUsn(@),
                                               !.notes = ResetUsn(@),
                                               !.usn = Sentinel]]
    /\ w_pc' = [w_pc EXCEPT ![p] = "commit"]
    /\ UNCHANGED <<batch, analytics, accounts, w_col, w_pkg, w_view, w_lock, w_ret>>

\* target_conn.commit()
W_Commit(p) ==
    /\ w_pc[p] = "commit"
    /\ w_col' = w_txn[p]
    /\ w_lock' = 0
    /\ w_pc' = [w_pc EXCEPT ![p] = "final_count"]
    /\ UNCHANGED <<batch, analytics, accounts, w_pkg, w_view, w_txn, w_ret>>

\* SELECT COUNT(*) FROM cards; finally: both close(); _update_media_database
\* finds no media file; return True, f"Imported ..."
W_Finish(p) ==
    /\ w_pc[p] = "final_count"
    /\ w_txn' = [w_txn EXCEPT ![p] = NoFile]
    /\ w_ret' = [w_ret EXCEPT ![p] = Imported(w_view[p].cards_imported, 0)]
    /\ w_pc' = [w_pc EXCEPT ![p] = "returned"]
    /\ UNCHANGED <<batch, analytics, accounts, w_col, w_pkg, w_view, w_lock>>

W_MergePcs == {"open", "read_models", "notetypes", "decks", "notes", "cards",
               "usn_reset", "commit", "final_count"}

\* A statement raises (an INSERT on an existing primary key, or a statement
\* that waited for the lock for the whole timeout): close() rolls back and
\* releases the lock, inject_apkg returns the database error.
W_StatementRaises(p) ==
    /\ w_pc[p] \in W_MergePcs
    /\ w_txn' = [w_txn EXCEPT ![p] = NoFile]
    /\ w_lock' = IF w_lock = p THEN 0 ELSE w_lock
    /\ w_ret' = [w_ret EXCEPT ![p] = DatabaseError]
    /\ w_pc' = [w_pc EXCEPT ![p] = "returned"]
    /\ UNCHANGED <<batch, analytics, accounts, w_col, w_pkg, w_view>>

NextRequests ==
    \E p \in Workers :
        \/ W_Extract(p)
        \/ W_CopyMedia(p)
        \/ W_OpenConnections(p)
        \/ W_ReadModels(p)
        \/ W_MergeNotetypes(p)
        \/ W_MergeDecks(p)
        \/ W_MergeNotes(p)
        \/ W_MergeCards(p)
        \/ W_SyncTrigger(p)
        \/ W_Commit(p)
        \/ W_Finish(p)
        \/ W_StatementRaises(p)

SpecRequests == InitRequests /\ [][NextRequests]_vars

\* ------------------------------------------------- the revlog reader ----
\* AnkiAnalyticsService.sync_revlog for one student, called by the views (so
\* by several requests at a time), while the student's devices add reviews
\* and change cards through the sync server.  The connection is read-only and
\* outside any transaction: each statement reads the file as it is then.
Callers == {1, 2}

\* The student of the service, and another one with rows in the table.
Student == 1
OtherStudent == 2

\* A live collection: decks maps deck id to name, cards maps card id to deck
\* id, revlog is the set of review rows.
Live(decks, cards, revlog) ==
    [exists |-> TRUE, decks |-> decks, cards |-> cards, revlog |-> revlog]

Revlog(id, cid) == [id |-> id, cid |-> cid]

\* The review rows there can be: id i is a review of card 1 or 2.
RevlogRows == {Revlog(i, ((i - 1) % 2) + 1) : i \in 1..MaxRevlog}

\* A row of AnkiRevlog; deck is history: the name, as sync_revlog read it, of
\* the deck of the card ("none" when it read no such card or deck).
Entry(student, revlog_id, card_id, deck) ==
    [student |-> student, revlog_id |-> revlog_id, card_id |-> card_id, deck |-> deck]

Value(n) == [kind |-> "value", n |-> n]
NoValue == [kind |-> "none", n |-> 0]
Raised == [kind |-> "raised", n |-> 0]

Locals(last_synced, decks_data, allowed_dids, rows, card_did_map, new_entries) ==
    [last_synced |-> last_synced, decks_data |-> decks_data,
     allowed_dids |-> allowed_dids, rows |-> rows, card_did_map |-> card_did_map,
     new_entries |-> new_entries,
     \* history: the mirrored ids of the student and the revlog table as they
     \* were when last_synced and rows were read, and (until the card queries)
     \* whether a writer held the file when rows were read
     mirrored |-> {}, revlog_read |-> {}, beside_writer |-> FALSE]

NoLoc == Locals(0, EmptyMap, {}, {}, EmptyMap, {})

\* The same for every student.
LastSynced_AnyStudent(table, student) ==
    MaxOf({r.revlog_id : r \in BagToSet(table)})

\* AnkiRevlog.objects.filter(student=...).order_by('-revlog_id')
\*     .values_list('revlog_id', flat=True).first() or 0
LastSynced(table, student) ==
    MaxOf({r.revlog_id : r \in {e \in BagToSet(table) : e.student = student}})

\* The same for every deck of the collection.
AllowedDids_All(decks_data, titles) == DOMAIN decks_data

\* {int(did) for did, data in decks_data.items() if data['name'] in lms_deck_titles}
AllowedDids(decks_data, titles) == {did \in DOMAIN decks_data : decks_data[did] \in titles}

\* The same with WHERE id >= ?
NewRevlogs_Inclusive(revlog, last_synced, limit) ==
    LET beyond == {r \in revlog : r.id >= last_synced}
    IN  {r \in beyond : Cardinality({q \in beyond : q.id < r.id}) < limit}

\* SELECT ... FROM revlog WHERE id > ? ORDER BY id LIMIT 10000
NewRevlogs(revlog, last_synced, limit) ==
    LET beyond == {r \in revlog : r.id > last_synced}
    IN  {r \in beyond : Cardinality({q \in beyond : q.id < r.id}) < limit}

\* SELECT id, did FROM cards WHERE id IN (...), over all chunks
CardDidMap(cards, card_ids) == [c \in card_ids \cap DOMAIN cards |-> cards[c]]

\* The deck name that the locals give for a card id.
DeckRead(loc, cid) ==
    IF cid \in DOMAIN loc.card_did_map
          /\ loc.card_did_map[cid] \in DOMAIN loc.decks_data
    THEN loc.decks_data[loc.card_did_map[cid]]
    ELSE "none"

\* The filter loop: did = card_did_map.get(cid); if did in allowed_dids
NewEntries(loc, student) ==
    {Entry(student, r.id, r.cid, DeckRead(loc, r.cid)) :
        r \in {q \in loc.rows : /\ q.cid \in DOMAIN loc.card_did_map
                                /\ loc.card_did_map[q.cid] \in loc.allowed_dids}}

\* The same on a table without the unique constraint.
BulkCreate_NoConstraint(table, entries) == table (+) SetToBag(entries)

\* bulk_create(new_entries, ignore_conflicts=True) on a table with
\* unique_together = ('student', 'revlog_id')
BulkCreate(table, entries) ==
    table (+) SetToBag({e \in entries :
                           \A r \in BagToSet(table) :
                               ~(r.student = e.student /\ r.revlog_id = e.revlog_id)})

InitRevlog ==
    /\ \E cards \in {(1 :> 2) @@ (2 :> did) : did \in 1..2}, revlog \in SUBSET RevlogRows :
          a_col \in {[exists |-> FALSE, decks |-> EmptyMap, cards |-> EmptyMap,
                      revlog |-> {}],
                     Live((1 :> "Default") @@ (2 :> "Demo"), cards, revlog)}
    /\ lms_titles \in {{}, {"Demo", "Extra"}}
    /\ mirror = SetToBag({Entry(OtherStudent, MaxRevlog, 1, "Demo")})
    /\ a_pc = [c \in Callers |-> "idle"]
    /\ a_loc = [c \in Callers |-> NoLoc]
    /\ a_ret = [c \in Callers |-> NoValue]
    /\ a_failed = [c \in Callers |-> "none"]
    /\ a_changes = 0
    /\ a_lock = NoLocks
    /\ a_unclosed = [c \in Callers |-> FALSE]
    /\ NoRequests
    /\ NoBatch
    /\ NoAccounts

\* The same opened read-only alone.
OpenMode_ReadOnly == [ro |-> TRUE, immutable |-> FALSE]

\* db_uri = f"file:{self.collection_path}?mode=ro&immutable=1"
OpenMode == [ro |-> TRUE, immutable |-> TRUE]

\* SQLite takes no lock on a file opened with immutable=1, and a read lock
\* for each statement otherwise.
TakesLocks(mode) == ~mode.immutable

\* A statement of a caller can read now: one that takes a read lock waits
\* while a writer holds the file.
CanRead == ~TakesLocks(OpenMode) \/ ~a_lock.writer

\* The read lock of the caller's statement, kept after the model step when
\* the statement is left active (fetchone() without a reset).
Locked(c, active) ==
    [a_lock EXCEPT !.shared = IF TakesLocks(OpenMode) /\ active THEN @ \cup {c}
                              ELSE @ \ {c}]

\* sync_revlog returns value; the locals are dropped.
A_Return(c, value) ==
    /\ a_ret' = [a_ret EXCEPT ![c] = value]
    /\ a_pc' = [a_pc EXCEPT ![c] = "returned"]
    /\ a_loc' = [a_loc EXCEPT ![c] = NoLoc]

\* conn.close(); return value
A_CloseReturn(c, value) ==
    /\ A_Return(c, value)
    /\ a_lock' = Locked(c, FALSE)
    /\ UNCHANGED a_unclosed

\* if not self.collection_path.exists(): return 0
A_NoCollection(c) ==
    /\ a_pc[c] \in {"idle", "returned"}
    /\ ~a_col.exists
    /\ a_failed' = [a_failed EXCEPT ![c] = "missing"]
    /\ a_unclosed' = [a_unclosed EXCEPT ![c] = FALSE]
    /\ A_Return(c, Value(0))
    /\ UNCHANGED <<batch, requests, accounts, a_col, lms_titles, mirror, a_changes, a_lock>>

\* last_synced = AnkiRevlog.objects.filter(student=self.student)...first() or 0
A_Begin(c) ==
    /\ a_pc[c] \in {"idle", "returned"}
    /\ a_col.exists
    /\ a_loc' = [a_loc EXCEPT ![c] =
                    [NoLoc EXCEPT !.last_synced = LastSynced(mirror, Student),
                                  !.mirrored = {r.revlog_id : r \in
                                      {e \in BagToSet(mirror) : e.student = Student}}]]
    /\ a_ret' = [a_ret EXCEPT ![c] = NoValue]
    /\ a_failed' = [a_failed EXCEPT ![c] = "none"]
    /\ a_unclosed' = [a_unclosed EXCEPT ![c] = FALSE]
    /\ a_pc' = [a_pc EXCEPT ![c] = "decks"]
    /\ UNCHANGED <<batch, requests, accounts, a_col, lms_titles, mirror, a_changes, a_lock>>

\* sqlite3.connect(db_uri, uri=True); SELECT decks FROM col; fetchone();
\* allowed_dids; if not allowed_dids: conn.close(); return 0
A_ReadDecks(c) ==
    /\ a_pc[c] = "decks"
    /\ CanRead
    /\ LET allowed == AllowedDids(a_col.decks, lms_titles)
       IN  IF allowed = {}
           THEN A_CloseReturn(c, Value(0))
           ELSE /\ a_loc' = [a_loc EXCEPT ![c].decks_data = a_col.decks,
                                          ![c].allowed_dids = allowed]
                /\ a_pc' = [a_pc EXCEPT ![c] = "query"]
                /\ a_lock' = Locked(c, TRUE)
                /\ UNCHANGED <<a_ret, a_unclosed>>
    /\ UNCHANGED <<batch, requests, accounts, a_col, lms_titles, mirror, a_failed, a_changes>>

\* the revlog query and fetchall(); if not rows: conn.close(); return 0
A_QueryRevlog(c) ==
    /\ a_pc[c] = "query"
    /\ CanRead
    /\ LET rows == NewRevlogs(a_col.revlog, a_loc[c].last_synced, BatchLimit)
       IN  IF rows = {}
           THEN A_CloseReturn(c, Value(0))
           ELSE /\ a_loc' = [a_loc EXCEPT ![c].rows = rows,
                                          ![c].revlog_read = a_col.revlog,
                                          ![c].beside_writer = a_lock.writer]
                /\ a_pc' = [a_pc EXCEPT ![c] = "cards"]
                /\ a_lock' = Locked(c, FALSE)
                /\ UNCHANGED <<a_ret, a_unclosed>>
    /\ UNCHANGED <<batch, requests, accounts, a_col, lms_titles, mirror, a_failed, a_changes>>

\* the card queries, chunk by chunk
A_ReadCards(c) ==
    /\ a_pc[c] = "cards"
    /\ CanRead
    /\ a_loc' = [a_loc EXCEPT ![c].card_did_map =
                    CardDidMap(a_col.cards, {r.cid : r \in a_loc[c].rows}),
                                  ![c].beside_writer = FALSE]
    /\ a_pc' = [a_pc EXCEPT ![c] = "store"]
    /\ UNCHANGED <<batch, requests, accounts, a_col, lms_titles, mirror, a_ret, a_failed, a_changes,
                   a_lock, a_unclosed>>

\* the filter loop; if new_entries: bulk_create(...); with no entry left:
\* conn.close(); return len(new_entries)
A_Store(c) ==
    /\ a_pc[c] = "store"
    /\ LET new_entries == NewEntries(a_loc[c], Student)
       IN  IF new_entries = {}
           THEN A_CloseReturn(c, Value(0)) /\ UNCHANGED mirror
           ELSE /\ mirror' = BulkCreate(mirror, new_entries)
                /\ a_loc' = [a_loc EXCEPT ![c].new_entries = new_entries]
                /\ a_pc' = [a_pc EXCEPT ![c] = "stats"]
                /\ UNCHANGED <<a_ret, a_lock, a_unclosed>>
    /\ UNCHANGED <<batch, requests, accounts, a_col, lms_titles, a_failed, a_changes>>

\* _update_daily_stats, _update_progress (which reads the collection again),
\* _update_streak; conn.close(); return len(new_entries)
A_UpdateStats(c) ==
    /\ a_pc[c] = "stats"
    /\ CanRead
    /\ A_CloseReturn(c, Value(Cardinality(a_loc[c].new_entries)))
    /\ UNCHANGED <<batch, requests, accounts, a_col, lms_titles, mirror, a_failed, a_changes>>

\* The positions at which a statement reads the collection.
A_ReadPcs == {"decks", "query", "cards", "stats"}

\* What is left of the connection when sync_revlog returns from an except
\* clause, which has no conn.close(): the connection is open unless the
\* interpreter has finalised it by then (and none was opened when it was
\* sqlite3.connect that raised).
A_Unclosed(c) ==
    /\ a_unclosed' \in {[a_unclosed EXCEPT ![c] = open] : open \in BOOLEAN}
    /\ a_lock' = IF a_unclosed'[c] THEN a_lock ELSE Locked(c, FALSE)

\* The same without the except clauses.
A_ReadFails_Propagates(c) ==
    /\ a_pc[c] \in A_ReadPcs
    /\ a_failed' = [a_failed EXCEPT ![c] = a_pc[c]]
    /\ A_Return(c, Raised)
    /\ A_Unclosed(c)
    /\ UNCHANGED <<batch, requests, accounts, a_col, lms_titles, mirror, a_changes>>

\* A read of the collection raises (the file is no database, a row has
\* another shape, a statement waited too long for a lock): except
\* sqlite3.OperationalError / except Exception: return 0
A_ReadFails(c) ==
    /\ a_pc[c] \in A_ReadPcs
    /\ a_failed' = [a_failed EXCEPT ![c] = a_pc[c]]
    /\ A_Return(c, Value(0))
    /\ A_Unclosed(c)
    /\ UNCHANGED <<batch, requests, accounts, a_col, lms_titles, mirror, a_changes>>

\* A device of the student syncs a review; its id is the time of the review
\* on that device, which may be before reviews that are already there.
Reviewed == \E r \in RevlogRows \ a_col.revlog : a_col' = [a_col EXCEPT !.revlog = @ \cup {r}]

\* The sync server writes the review in one transaction, which SQLite lets
\* begin once no connection holds a lock on the file.
A_Review ==
    /\ a_col.exists
    /\ ~a_lock.writer
    /\ a_lock.shared = {}
    /\ Reviewed
    /\ UNCHANGED <<batch, requests, accounts, lms_titles, mirror, a_pc, a_loc, a_ret, a_failed,
                   a_changes, a_lock, a_unclosed>>

\* The student moves a card to another deck or deletes it, in one transaction.
A_CardChanges ==
    /\ a_col.exists
    /\ ~a_lock.writer
    /\ a_lock.shared = {}
    /\ a_changes < MaxChanges
    /\ a_changes' = a_changes + 1
    /\ \E cid \in DOMAIN a_col.cards :
          \/ \E did \in DOMAIN a_col.decks \ {a_col.cards[cid]} :
                a_col' = [a_col EXCEPT !.cards[cid] = did]
          \/ a_col' = [a_col EXCEPT !.cards =
                          [x \in DOMAIN a_col.cards \ {cid} |-> a_col.cards[x]]]
    /\ UNCHANGED <<batch, requests, accounts, lms_titles, mirror, a_pc, a_loc, a_ret, a_failed,
                   a_lock, a_unclosed>>

NextRevlog ==
    \/ \E c \in Callers :
          \/ A_NoCollection(c)
          \/ A_Begin(c)
          \/ A_ReadDecks(c)
          \/ A_QueryRevlog(c)
          \/ A_ReadCards(c)
          \/ A_Store(c)
          \/ A_UpdateStats(c)
          \/ A_ReadFails(c)
    \/ A_Review
    \/ A_CardChanges

SpecRevlog == InitRevlog /\ [][NextRevlog]_vars

\* ------------------------------------ the revlog reader, left alone ----
\* The collection has stopped changing and every read of it succeeds; the
\* views go on calling sync_revlog, and a call that has begun runs on.
\* The rows of the revlog are reviews of any of the two cards.
InitQuiet ==
    /\ \E cards \in [1..2 -> 1..2], cids \in [1..MaxRevlog -> 0..2] :
          a_col = Live((1 :> "Default") @@ (2 :> "Demo"), cards,
                       {Revlog(i, cids[i]) : i \in {j \in 1..MaxRevlog : cids[j] # 0}})
    /\ lms_titles = {"Demo", "Extra"}
    /\ mirror = SetToBag({Entry(OtherStudent, MaxRevlog, 1, "Demo")})
    /\ a_pc = [c \in Callers |-> "idle"]
    /\ a_loc = [c \in Callers |-> NoLoc]
    /\ a_ret = [c \in Callers |-> NoValue]
    /\ a_failed = [c \in Callers |-> "none"]
    /\ a_changes = 0
    /\ a_lock = NoLocks
    /\ a_unclosed = [c \in Callers |-> FALSE]
    /\ NoRequests
    /\ NoBatch
    /\ NoAccounts

\* The steps of one call of sync_revlog, and the next call after it.
A_Call(c) ==
    \/ A_Begin(c)
    \/ A_ReadDecks(c)
    \/ A_QueryRevlog(c)
    \/ A_ReadCards(c)
    \/ A_Store(c)
    \/ A_UpdateStats(c)

NextQuiet == \E c \in Callers : A_Call(c)

SpecRevlogQuiet ==
    InitQuiet /\ [][NextQuiet]_vars /\ \A c \in Callers : WF_vars(A_Call(c))

\* ------------------------------ the revlog reader beside a writer ----
\* The transaction of a writer step by step.  The writer (the sync server, a
\* merge) begins to write the collection: SQLite gives it the file once no
\* connection holds a read lock.
A_WriterLocks ==
    /\ ~a_lock.writer
    /\ a_lock.shared = {}
    /\ a_lock' = [a_lock EXCEPT !.writer = TRUE]
    /\ UNCHANGED <<batch, requests, accounts, a_col, lms_titles, mirror, a_pc, a_loc, a_ret,
                   a_failed, a_changes, a_unclosed>>

\* It writes a review while it holds the file.
A_WriterWrites ==
    /\ a_lock.writer
    /\ Reviewed
    /\ UNCHANGED <<batch, requests, accounts, lms_titles, mirror, a_pc, a_loc, a_ret, a_failed,
                   a_changes, a_lock, a_unclosed>>

\* It commits and gives the file back.
A_WriterEnds ==
    /\ a_lock.writer
    /\ a_lock' = [a_lock EXCEPT !.writer = FALSE]
    /\ UNCHANGED <<batch, requests, accounts, a_col, lms_titles, mirror, a_pc, a_loc, a_ret,
                   a_failed, a_changes, a_unclosed>>

\* The student has a collection with both cards in the deck of the LMS.
InitLocks ==
    /\ \E revlog \in SUBSET RevlogRows :
          a_col = Live((1 :> "Default") @@ (2 :> "Demo"), (1 :> 2) @@ (2 :> 2), revlog)
    /\ lms_titles = {"Demo", "Extra"}
    /\ mirror = SetToBag({Entry(OtherStudent, MaxRevlog, 1, "Demo")})
    /\ a_pc = [c \in Callers |-> "idle"]
    /\ a_loc = [c \in Callers |-> NoLoc]
    /\ a_ret = [c \in Callers |-> NoValue]
    /\ a_failed = [c \in Callers |-> "none"]
    /\ a_changes = 0
    /\ a_lock = NoLocks
    /\ a_unclosed = [c \in Callers |-> FALSE]
    /\ NoRequests
    /\ NoBatch
    /\ NoAccounts

NextLocks ==
    \/ \E c \in Callers : A_Call(c) \/ A_ReadFails(c)
    \/ A_WriterLocks
    \/ A_WriterWrites
    \/ A_WriterEnds

SpecRevlogLocks == InitLocks /\ [][NextLocks]_vars

\* --------------------------------------------- the sync-users file ----
\* The processes that call the user functions at the same time (the web
\* workers of the LMS).
Procs == {1, 2}

\* The accounts the calls are about.
Accounts == {"a@x", "b@x"}

\* One line SYNC_USER{n}=email:password of the file.  The lines of the
\* accounts here are equally long, so a line is the unit of a write.
UserLine(n, account, password) ==
    [n |-> n, account |-> account, password |-> password]

\* The value email:password kept under one key of existing_users.
UserValue(account, password) == [account |-> account, password |-> password]

\* A call of one of the three functions.
UserCall(name, account, password) ==
    [name |-> name, account |-> account, password |-> password]

UserCalls ==
    {UserCall("create_anki_user", e, "pw1") : e \in Accounts}
        \cup {UserCall("change_anki_password", e, "pw2") : e \in Accounts}
        \cup {UserCall("delete_anki_user", e, "") : e \in Accounts}

\* existing_users as the loop over the lines of the file fills it: a later
\* line with the same key replaces the value of an earlier one.
RECURSIVE ParseUsers(_, _)
ParseUsers(lines, users) ==
    IF lines = <<>>
    THEN users
    ELSE ParseUsers(Tail(lines),
                    Put(users, Head(lines).n,
                        UserValue(Head(lines).account, Head(lines).password)))

\* The keys whose value starts with "email:".
KeysOf(users, account) == {k \in DOMAIN users : users[k].account = account}

\* next_num: the first number from 1 on that is no key yet.
NextNum(users) ==
    CHOOSE n \in 1..(Cardinality(DOMAIN users) + 1) :
        /\ n \notin DOMAIN users
        /\ \A m \in 1..(n - 1) : m \in DOMAIN users

\* The lines written back: the users sorted by the number of their key.
RECURSIVE SortedLines(_)
SortedLines(users) ==
    IF DOMAIN users = {}
    THEN <<>>
    ELSE LET k == MinOf(DOMAIN users)
         IN  <<UserLine(k, users[k].account, users[k].password)>>
                 \o SortedLines([x \in DOMAIN users \ {k} |-> users[x]])

\* delete_anki_user numbers the users that remain from 1 on, in the order of
\* their old numbers.
Renumbered(users) ==
    LET lines == SortedLines(users)
    IN  [i \in 1..Len(lines) |-> UserValue(lines[i].account, lines[i].password)]

\* What the file holds once buffered lines are written at offset 0: they
\* replace the lines at the same places, and what lies behind them stays.
WrittenAtStart(buffer, lines) ==
    buffer \o SubSeq(lines, Len(buffer) + 1, Len(lines))

\* The file after a file object is closed: one that wrote flushes its buffer.
Flushed(wrote, buffer, lines) == IF wrote THEN WrittenAtStart(buffer, lines) ELSE lines

\* The locals of one call.  call is the call as it was made, op the function
\* that is running (change_anki_password hands over to create_anki_user);
\* wrote says that the file object has truncated the file and holds buffer to
\* write; unlocked_write remembers a write that reached the file while the
\* process did not hold the lock.
UserLocals(call) ==
    [pc |-> "open", call |-> call, op |-> call.name, existing_users |-> EmptyMap,
     wrote |-> FALSE, buffer |-> <<>>, unlocked_write |-> FALSE, ret |-> FALSE]

\* Two processes are about to call; the file is missing, or holds the lines an
\* earlier call wrote.
InitSyncUsers ==
    /\ NoBatch
    /\ NoRequests
    /\ NoAnalytics
    /\ u_file \in {[exists |-> FALSE, lines |-> <<>>],
                   [exists |-> TRUE, lines |-> <<>>],
                   [exists |-> TRUE, lines |-> <<UserLine(1, "c@x", "pw1")>>],
                   [exists |-> TRUE, lines |-> <<UserLine(1, "a@x", "pw1"),
                                                 UserLine(2, "c@x", "pw1")>>]}
    /\ u_flock = 0
    /\ u_proc \in {[p \in Procs |-> UserLocals(calls[p])] : calls \in [Procs -> UserCalls]}

UserStep(p, fields) == u_proc' = [u_proc EXCEPT ![p] = fields @@ u_proc[p]]

\* The part of a function before `with open(...)`: create_anki_user creates a
\* missing file, change_anki_password hands a missing file to
\* create_anki_user, delete_anki_user returns True for it.
U_Open(p) ==
    /\ u_proc[p].pc = "open"
    /\ CASE u_proc[p].op = "create_anki_user" ->
                /\ u_file' = [u_file EXCEPT !.exists = TRUE]
                /\ UserStep(p, [pc |-> "flock"])
         [] u_proc[p].op = "change_anki_password" ->
                /\ UNCHANGED u_file
                /\ IF u_file.exists
                   THEN UserStep(p, [pc |-> "flock"])
                   ELSE UserStep(p, [op |-> "create_anki_user"])
         [] u_proc[p].op = "delete_anki_user" ->
                /\ UNCHANGED u_file
                /\ IF u_file.exists
                   THEN UserStep(p, [pc |-> "flock"])
                   ELSE UserStep(p, [pc |-> "returned", ret |-> TRUE])
    /\ UNCHANGED <<batch, requests, analytics, u_flock>>

\* fcntl.flock(f, fcntl.LOCK_EX) returns once no other open file holds the lock.
U_Lock(p) ==
    /\ u_proc[p].pc = "flock"
    /\ u_flock = 0
    /\ u_flock' = p
    /\ UserStep(p, [pc |-> "read"])
    /\ UNCHANGED <<batch, requests, analytics, u_file>>

\* f.seek(0) and the loop over the lines.
U_Read(p) ==
    /\ u_proc[p].pc = "read"
    /\ UserStep(p, [pc |-> "modify",
                    existing_users |-> ParseUsers(u_file.lines, EmptyMap)])
    /\ UNCHANGED <<batch, requests, analytics, u_file, u_flock>>

\* f.seek(0), f.truncate() and the f.write calls: the file on disk is cut to
\* nothing at once, the lines stay in the buffer of the file object.
WriteBack(p, users) ==
    /\ u_file' = [u_file EXCEPT !.lines = <<>>]
    /\ UserStep(p, [pc |-> "unlock", existing_users |-> users,
                    wrote |-> TRUE, buffer |-> SortedLines(users)])
    /\ UNCHANGED u_flock

\* create_anki_user after the read: a user that exists is left alone, a new
\* one gets the next number.
ModifyCreate(p) ==
    LET users == u_proc[p].existing_users
        call == u_proc[p].call
    IN  IF KeysOf(users, call.account) # {}
        THEN /\ UserStep(p, [pc |-> "unlock"])
             /\ UNCHANGED <<u_file, u_flock>>
        ELSE WriteBack(p, Put(users, NextNum(users),
                              UserValue(call.account, call.password)))

\* change_anki_password after the read: the first key of the user gets the
\* new password; an unknown user is handed to create_anki_user after the lock
\* is released.
ModifyChange(p) ==
    LET users == u_proc[p].existing_users
        call == u_proc[p].call
        keys == KeysOf(users, call.account)
    IN  IF keys # {}
        THEN WriteBack(p, Put(users, MinOf(keys),
                              UserValue(call.account, call.password)))
        ELSE /\ u_flock' = 0
             /\ UserStep(p, [pc |-> "open", op |-> "create_anki_user"])
             /\ UNCHANGED u_file

\* delete_anki_user after the read: the first key of the user goes, the others
\* are renumbered; an unknown user changes nothing.
ModifyDelete(p) ==
    LET users == u_proc[p].existing_users
        call == u_proc[p].call
        keys == KeysOf(users, call.account)
    IN  IF keys # {}
        THEN WriteBack(p, Renumbered([k \in DOMAIN users \ {MinOf(keys)} |-> users[k]]))
        ELSE /\ UserStep(p, [pc |-> "unlock"])
             /\ UNCHANGED <<u_file, u_flock>>

U_Modify(p) ==
    /\ u_proc[p].pc = "modify"
    /\ CASE u_proc[p].op = "create_anki_user" -> ModifyCreate(p)
         [] u_proc[p].op = "change_anki_password" -> ModifyChange(p)
         [] u_proc[p].op = "delete_anki_user" -> ModifyDelete(p)
    /\ UNCHANGED <<batch, requests, analytics>>

\* finally: fcntl.flock(f, fcntl.LOCK_UN).  The lines written stay in the
\* buffer of the file object.
U_Unlock(p) ==
    /\ u_proc[p].pc = "unlock"
    /\ u_flock' = 0
    /\ UserStep(p, [pc |-> "close"])
    /\ UNCHANGED <<batch, requests, analytics, u_file>>

\* The end of the with block closes the file, which writes the buffer at
\* offset 0; the function then restarts the container and returns True.
U_Close(p) ==
    /\ u_proc[p].pc = "close"
    /\ u_file' = [u_file EXCEPT
                     !.lines = Flushed(u_proc[p].wrote, u_proc[p].buffer, @)]
    /\ UserStep(p, [pc |-> "returned", ret |-> TRUE, wrote |-> FALSE,
                    buffer |-> <<>>,
                    unlocked_write |-> u_proc[p].wrote /\ u_flock # p])
    /\ UNCHANGED <<batch, requests, analytics, u_flock>>

NextSyncUsers ==
    \E p \in Procs :
        \/ U_Open(p)
        \/ U_Lock(p)
        \/ U_Read(p)
        \/ U_Modify(p)
        \/ U_Unlock(p)
        \/ U_Close(p)

SpecSyncUsers == InitSyncUsers /\ [][NextSyncUsers]_vars

\* ------------------------------------------------------------- claims ----
\* The merge of the current student has just committed.
Committed == pc = "final_count"

\* The target file of the current student.
target == col[email]

\* Every card references a note and a deck of the same collection.
RefIntegrity(c) ==
    \A card \in c.cards : card.nid \in Ids(c.notes) /\ card.did \in DOMAIN c.decks

\* The card rows that the current merge added to the target.
InsertedCards == {c \in target.cards : c.id \notin Ids(pre.col.cards)}

\* The note rows that the current merge added to the target.
InsertedNotes == {n \in target.notes : n.id \notin Ids(pre.col.notes)}

\* C1 (as stated): whenever a statement of _import_collection_data has raised,
\* whichever statement it was, the target file is what it was when the
\* injection began.
C1_AnyRaiseLeavesTarget ==
    (pc = "returned" /\ ret.kind = "db_error") => target = pre.col

\* C1 (amended): whenever a statement of _import_collection_data up to and
\* including the commit has raised, the target file is what it was when the
\* injection began.
C1_RaiseUpToCommitLeavesTarget ==
    (pc = "returned" /\ ret.kind = "db_error" /\ raised_at # "final_count")
        => target = pre.col

\* A merge that had inserted notes into an empty target raised at the commit.
C1_Witness ==
    /\ pc = "returned"
    /\ ret.kind = "db_error"
    /\ raised_at = "commit"
    /\ FindSourceDb(apkg).notes # {}
    /\ FindSourceDb(apkg).cards # {}
    /\ pre.col.notes = {}
    /\ target = pre.col

\* C2: a merge of the package into a target that already holds a committed
\* merge of the same package is about to commit as many notes and as many
\* cards as the target holds, and has counted no inserted card.
C2_SecondMergeInsertsNothing ==
    (pc = "commit" /\ email \in merged)
        => /\ Cardinality(txn.notes) = Cardinality(target.notes)
           /\ Cardinality(txn.cards) = Cardinality(target.cards)
           /\ cards_imported = 0

\* A second merge of a package with two notes and two cards is about to commit.
C2_Witness ==
    /\ pc = "commit"
    /\ email \in merged
    /\ Cardinality(source_db.notes) = 2
    /\ Cardinality(source_db.cards) = 2
    /\ Cardinality(target.cards) >= 2

\* C3: when the target and the package each had every card on a note and a
\* deck of their own, every card of the target after the commit is on a note
\* and a deck of the target.
C3_ReferentialIntegrity ==
    (/\ Committed
     /\ RefIntegrity(pre.col)
     /\ RefIntegrity(source_db))
        => RefIntegrity(target)

\* A committed merge that inserted cards from a package whose note ids and
\* card ids are ids of the target too.
C3_Witness ==
    /\ Committed
    /\ RefIntegrity(pre.col)
    /\ RefIntegrity(source_db)
    /\ Ids(source_db.notes) \cap Ids(pre.col.notes) # {}
    /\ Ids(source_db.cards) \cap Ids(pre.col.cards) # {}
    /\ InsertedCards # {}
    /\ InsertedNotes # {}

\* C4: after the commit every inserted note and card, every target note that
\* a package note was mapped to, and every target card that made a package
\* card a duplicate, has usn = -1.
C4_SyncMarker ==
    Committed =>
        /\ \A n \in InsertedNotes : n.usn = Sentinel
        /\ \A c \in InsertedCards : c.usn = Sentinel
        /\ \A n \in target.notes :
              (\E old \in DOMAIN note_id_map : note_id_map[old] = n.id)
                  => n.usn = Sentinel
        /\ \A c \in target.cards :
              (\E sc \in source_db.cards :
                  c.nid = Get(note_id_map, sc.nid) /\ c.ord = sc.ord)
                  => c.usn = Sentinel

\* A committed merge that inserted a card and matched a synced note and a
\* synced card of the target.
C4_Witness ==
    /\ Committed
    /\ InsertedCards # {}
    /\ \E n \in pre.col.notes :
          /\ n.usn >= 0
          /\ \E old \in DOMAIN note_id_map : note_id_map[old] = n.id
    /\ \E c \in pre.col.cards :
          /\ c.usn >= 0
          /\ \E sc \in source_db.cards :
                c.nid = Get(note_id_map, sc.nid) /\ c.ord = sc.ord

\* The deck merge of the current injection has run and is not yet committed.
DecksMerged == pc \in {"notes", "cards", "usn_reset", "commit"}

\* C5: after the deck merge, package deck 1 is mapped to deck 1, every deck
\* the merge created is the image of a package deck other than 1, and the
\* target's deck 1 has the name it had; it has it after the commit too.
C5_DefaultDeck ==
    /\ DecksMerged =>
          /\ 1 \in DOMAIN source_db.decks => deck_id_map[1] = 1
          /\ \A d \in DOMAIN txn.decks \ DOMAIN target.decks :
                \E sid \in DOMAIN source_db.decks \ {1} :
                    /\ deck_id_map[sid] = d
                    /\ txn.decks[d].name = source_db.decks[sid].name
          /\ 1 \in DOMAIN txn.decks
          /\ txn.decks[1].name = target.decks[1].name
    /\ Committed =>
          /\ 1 \in DOMAIN target.decks
          /\ target.decks[1].name = pre.col.decks[1].name

\* A deck merge of a package whose deck 1 has a name no target deck has, and
\* which created a deck.
C5_Witness ==
    /\ DecksMerged
    /\ IdByName(target.decks, source_db.decks[1].name) = 0
    /\ DOMAIN txn.decks # DOMAIN target.decks

\* The archive is a zip with a database and without a usable manifest.
NoUsableManifest ==
    /\ apkg.zip
    /\ apkg.anki2.exists \/ apkg.anki21.exists
    /\ apkg.media.kind \in {"missing", "invalid_json", "undecodable", "not_object"}

\* C6: an injection of an archive without a usable manifest into an existing
\* collection, in which no statement of the merge raised, has committed the
\* merge and returned success with zero media files.
C6_ManifestTolerated ==
    (/\ pc = "returned"
     /\ NoUsableManifest
     /\ pre.col.exists
     /\ raised_at = "none")
        => /\ ret.ok
           /\ ret.media = 0
           /\ email \in merged

\* The package note n meets a target note of its guid with other content.
Conflicts(n) == \E t \in pre.col.notes : t.guid = n.guid /\ t.flds # n.flds

\* The cards of the package on the note n.
CardsOf(n) == {c \in source_db.cards : c.nid = n.id}

\* The package card c became a row of the target.
WasInserted(c) == NewId(c.id, max_card_id) \in Ids(InsertedCards)

\* Every note the target had is there with its guid, notetype and content.
ContentKept ==
    \A t \in pre.col.notes :
        \E u \in target.notes :
            u.id = t.id /\ u.guid = t.guid /\ u.mid = t.mid /\ u.flds = t.flds

\* C7 (as stated): after the commit no card of a package note that conflicts
\* with a target note was inserted, and the target's notes kept their content.
C7_ConflictInsertsNoCard ==
    Committed =>
        /\ \A n \in source_db.notes :
              Conflicts(n) => \A c \in CardsOf(n) : ~WasInserted(c)
        /\ ContentKept

\* C7 (amended): after the commit no card of a conflicting package note was
\* inserted for an ordinal the target note had a card for, the target note has
\* a card for every ordinal of the package note, and the target's notes kept
\* their content.
C7_ConflictInsertsNoKnownOrdinal ==
    Committed =>
        /\ \A n \in source_db.notes :
              Conflicts(n) =>
                 \A c \in CardsOf(n) :
                    /\ CardExists(pre.col.cards, note_id_map[n.id], c.ord)
                          => ~WasInserted(c)
                    /\ CardExists(target.cards, note_id_map[n.id], c.ord)
                    /\ note_id_map[n.id] \in Ids(pre.col.notes)
        /\ ContentKept

\* A committed merge of a conflicting note with a card for an ordinal the
\* target note had and a card for an ordinal it lacked.
C7_Witness ==
    /\ Committed
    /\ \E n \in source_db.notes :
          /\ Conflicts(n)
          /\ \E c \in CardsOf(n) :
                CardExists(pre.col.cards, note_id_map[n.id], c.ord) /\ ~WasInserted(c)
          /\ \E c \in CardsOf(n) : WasInserted(c)

\* The package database of the archive, as the reader chooses it.
package == IF apkg.anki21.exists THEN apkg.anki21 ELSE apkg.anki2

\* The decks of a collection other than deck 1.
OtherDecks(c) == DOMAIN c.decks \ {1}

\* The injection began on a target without notes, cards and decks other than
\* deck 1, with a package whose cards differ in (note, ordinal) and whose
\* decks other than deck 1 differ in name.
FreshTarget ==
    /\ pre.col.exists
    /\ pre.col.notes = {}
    /\ pre.col.cards = {}
    /\ DOMAIN pre.col.decks = {1}
    /\ \A c, d \in package.cards : (c.nid = d.nid /\ c.ord = d.ord) => c = d
    /\ \A a, b \in OtherDecks(package) :
          package.decks[a].name = package.decks[b].name => a = b

\* The notes of the package differ in guid, its cards are on its notes, and
\* none of its decks other than deck 1 has the name of the target's deck 1.
WellFormedPackage ==
    /\ \A m, n \in package.notes : m.guid = n.guid => m = n
    /\ \A c \in package.cards : c.nid \in Ids(package.notes)
    /\ \A a \in OtherDecks(package) : package.decks[a].name # pre.col.decks[1].name

\* The injection returned c, and the target holds n notes, c cards and the d
\* decks of the package other than deck 1, by name.
AllImported ==
    /\ ret.cards = Cardinality(package.cards)
    /\ Cardinality(target.notes) = Cardinality(package.notes)
    /\ Cardinality(target.cards) = Cardinality(package.cards)
    /\ Cardinality(OtherDecks(target)) = Cardinality(OtherDecks(package))
    /\ {target.decks[d].name : d \in OtherDecks(target)} =
          {package.decks[d].name : d \in OtherDecks(package)}

\* The count returned is the number of card rows the merge added.
CountIsInserted == ret.cards = Cardinality(InsertedCards)

\* C8 (as stated): a successful injection into a fresh target has imported
\* every note, card and deck of the package, and every successful injection
\* returns the number of cards it inserted.
C8_FreshTargetImportsAll ==
    (pc = "returned" /\ ret.ok) =>
        /\ FreshTarget => AllImported
        /\ CountIsInserted

\* C8 (amended): the same for packages whose notes differ in guid, whose cards
\* are on notes of the package, and whose decks are not named as the target's
\* deck 1.
C8_FreshTargetImportsWellFormed ==
    (pc = "returned" /\ ret.ok) =>
        /\ (FreshTarget /\ WellFormedPackage) => AllImported
        /\ CountIsInserted

\* A successful injection of two notes, two cards and a second deck into a
\* fresh target.
C8_Witness ==
    /\ pc = "returned"
    /\ ret.ok
    /\ FreshTarget
    /\ WellFormedPackage
    /\ Cardinality(package.notes) = 2
    /\ ret.cards = 2
    /\ Cardinality(OtherDecks(target)) = 1

\* The students served so far by the current call.
Served ==
    IF pc = "done" THEN {student_emails[i] : i \in 1..Len(student_emails)}
    ELSE {student_emails[i] : i \in 1..(idx - 1)}

NoDatabaseInside == apkg.zip /\ ~apkg.anki2.exists /\ ~apkg.anki21.exists

\* C10: with a zip that holds no database, every injection into an existing
\* collection returns the missing-database failure, no collection has been
\* connected to, and no step changes a collection, a media directory or the
\* web media directory.
C10_MissingDatabaseFirst ==
    /\ [](NoDatabaseInside =>
             /\ connected = {}
             /\ (pc = "returned" /\ pre.col.exists) => ret = NoDatabase
             /\ \A s \in DOMAIN results : col[s].exists => results[s] = NoDatabase)
    /\ [][NoDatabaseInside => UNCHANGED files]_vars

\* The second student of a batch got the missing-database failure.
C10_Witness ==
    /\ NoDatabaseInside
    /\ pc = "returned"
    /\ idx = 2
    /\ ret = NoDatabase
    /\ results[1] = NoDatabase


\* ---------------------------------------------------------------------------
\* C12: a student without a collection file never gets one, nothing of the
\* student's media directories changes in any step, no archive is extracted
\* and no connection is opened for the student, and an injection that began
\* without the file returns the not-synced failure.
C12_NotSyncedChangesNothing ==
    /\ [](/\ \A s \in DOMAIN col :
                ~col[s].exists => (s \notin extracted /\ s \notin connected)
          /\ (pc = "returned" /\ ~pre.col.exists) => ret = NotSynced)
    /\ [][\A s \in DOMAIN col :
             ~col[s].exists => /\ col'[s] = col[s]
                               /\ media_dir'[s] = media_dir[s]
                               /\ web_media_dir'[s] = web_media_dir[s]]_vars

\* The second student of a batch has no collection and got the failure, after
\* the first one's merge.
C12_Witness ==
    /\ pc = "returned"
    /\ idx = 2
    /\ ~pre.col.exists
    /\ ret = NotSynced
    /\ 1 \in merged

\* No two notes of the collection share a guid.
UniqueGuids(c) == \A m, n \in c.notes : m.guid = n.guid => m = n

\* No inserted note has a guid the target had.
DuplicatesDropped ==
    \A n \in InsertedNotes : \A t \in pre.col.notes : n.guid # t.guid

\* C13 (as stated): after the commit of a merge into a target without repeated
\* guids the target has no repeated guid, no inserted note has a guid the target
\* had, and every row the target had is there as it was.
C13_GuidsUniqueRowsUntouched ==
    (Committed /\ UniqueGuids(pre.col)) =>
        /\ UniqueGuids(target)
        /\ DuplicatesDropped
        /\ pre.col.notes \subseteq target.notes

\* C13 (amended): the same, the rows the target had being there with their id,
\* guid, notetype and fields, and with usn -1 where it was not negative.
C13_GuidsUniqueContentKept ==
    (Committed /\ UniqueGuids(pre.col)) =>
        /\ UniqueGuids(target)
        /\ DuplicatesDropped
        /\ \A t \in pre.col.notes :
              [t EXCEPT !.usn = IF @ >= 0 THEN Sentinel ELSE @] \in target.notes
        /\ Cardinality(target.notes) =
              Cardinality(pre.col.notes) + Cardinality(InsertedNotes)

\* A committed merge, into a target with a synced note, of a package that
\* repeats a guid and of which one note was inserted.
C13_Witness ==
    /\ Committed
    /\ \E t \in pre.col.notes : t.usn >= 0
    /\ \E m, n \in source_db.notes : m # n /\ m.guid = n.guid
    /\ Cardinality(InsertedNotes) = 1

\* No two cards of the collection share note and ordinal.
UniqueOrds(c) == \A a, b \in c.cards : (a.nid = b.nid /\ a.ord = b.ord) => a = b

\* C14: after the commit of a merge into a target whose cards differ in (note,
\* ordinal), the cards of the target differ in (note, ordinal).
C14_CardsUnique ==
    (Committed /\ UniqueOrds(pre.col)) => UniqueOrds(target)

\* A committed merge in which two package notes were mapped to one target
\* note and each had a card of the same ordinal.
C14_Witness ==
    /\ Committed
    /\ UniqueOrds(pre.col)
    /\ \E m, n \in source_db.notes :
          /\ m # n
          /\ note_id_map[m.id] = note_id_map[n.id]
          /\ \E a, b \in source_db.cards :
                a.nid = m.id /\ b.nid = n.id /\ a.ord = b.ord
    /\ InsertedCards # {}

\* C15: after the commit every inserted note has a notetype of the target.
C15_NotetypeExists ==
    Committed => \A n \in InsertedNotes : n.mid \in DOMAIN target.models

\* C16: a successful merge of a package without notes or without cards has
\* counted no card and left the target file as it was.
C16_EmptySourceIsNoOp ==
    (Committed /\ (source_db.notes = {} \/ source_db.cards = {})) =>
        /\ cards_imported = 0
        /\ target = pre.col

\* C17: an injection, into an existing collection, of bytes that are few or
\* do not begin with the zip magic returns the invalid-package failure and
\* has extracted nothing.
C17_RejectedBeforeExtraction ==
    (pc = "returned" /\ pre.col.exists /\ (apkg.small \/ ~apkg.magic)) =>
        /\ ret = InvalidApkg
        /\ email \notin extracted


\* The request is between the start of its merge and the end of its media
\* synchronisation.
InMergeOrMedia(p) == w_pc[p] \in {"copy_media"} \cup W_MergePcs

\* C11: no two requests for the student are inside the merge or the media
\* steps at the same time.
C11_OneInjectionAtATime ==
    \A p, q \in Workers : (InMergeOrMedia(p) /\ InMergeOrMedia(q)) => p = q


HasRows(c) == a_pc[c] \in {"cards", "store", "stats"}

\* C19: the rows of a call are rows of the revlog table as read, at most
\* BatchLimit of them, each with an id above every id mirrored for the student
\* when the call began, and a row beyond that mark that is not among them has
\* a higher id than all of a full batch; the table holds no row twice and no
\* two rows of one student and one revlog id.
C19_BeyondHighWaterMark ==
    /\ \A c \in DOMAIN a_pc :
          HasRows(c) =>
              LET loc == a_loc[c]
                  mark == MaxOf(loc.mirrored)
              IN  /\ loc.rows \subseteq loc.revlog_read
                  /\ Cardinality(loc.rows) <= BatchLimit
                  /\ \A r \in loc.rows : r.id > mark /\ r.id \notin loc.mirrored
                  /\ \A x \in loc.revlog_read \ loc.rows :
                        x.id > mark => /\ Cardinality(loc.rows) = BatchLimit
                                       /\ \A r \in loc.rows : r.id < x.id
    /\ \A r \in BagToSet(mirror) : CopiesIn(r, mirror) = 1
    /\ \A r, q \in BagToSet(mirror) :
          (r.student = q.student /\ r.revlog_id = q.revlog_id) => r = q

\* A call is about to store an entry that another call has stored since this
\* one began, the student having a mirrored row and a full batch read.
C19_Witness ==
    \E c \in DOMAIN a_pc :
        /\ a_pc[c] = "store"
        /\ Cardinality(a_loc[c].rows) = BatchLimit
        /\ \E e \in NewEntries(a_loc[c], Student) :
              /\ e.revlog_id \notin a_loc[c].mirrored
              /\ \E m \in BagToSet(mirror) :
                    m.student = Student /\ m.revlog_id = e.revlog_id

\* C20: every row stored for the student is of a card whose deck, as the call
\* read them, has the title of an LMS deck.
C20_OnlyLmsDecks ==
    \A r \in BagToSet(mirror) : r.student = Student => r.deck \in lms_titles

\* A call stored an entry and dropped a review of a card in another deck and
\* a review of a card that is not in the collection.
C20_Witness ==
    \E c \in DOMAIN a_pc :
        /\ a_pc[c] = "stats"
        /\ a_loc[c].new_entries # {}
        /\ \E r \in a_loc[c].rows : r.id \notin {e.revlog_id : e \in a_loc[c].new_entries}
        /\ \E d \in DOMAIN a_pc :
              /\ a_pc[d] = "store"
              /\ \E r \in a_loc[d].rows : r.cid \notin DOMAIN a_loc[d].card_did_map


\* C21: sync_revlog never writes to the student's collection and takes no
\* lock on it: no step of a call changes the collection, no connection of a
\* call holds a read lock, a statement of a call never has to wait for a
\* writer that holds the file, and so no writer waits for a call.
C21_ReaderTakesNoLock ==
    [][/\ a_lock'.shared = {}
       /\ \A c \in Callers :
             a_pc'[c] \in A_ReadPcs => (~TakesLocks(OpenMode) \/ ~a_lock'.writer)
       /\ (\E c \in Callers : a_pc'[c] # a_pc[c]) => a_col' = a_col]_vars

\* A call has read the revlog while a writer held the file, and the writer
\* still holds it.
C21_Witness ==
    \E c \in Callers :
        /\ a_pc[c] = "cards"
        /\ a_loc[c].beside_writer
        /\ a_lock.writer


\* C27: when sync_revlog has returned, on whatever path, the connection it
\* opened on the collection has been closed.
C27_ConnectionsClosed ==
    \A c \in Callers : a_pc[c] = "returned" => ~a_unclosed[c]


\* The rows of the revlog whose card is in a deck that the LMS knows.
LmsRows ==
    {r \in a_col.revlog :
        /\ r.cid \in DOMAIN a_col.cards
        /\ a_col.cards[r.cid] \in AllowedDids(a_col.decks, lms_titles)}

AllMirrored ==
    \A r \in LmsRows :
        \E e \in BagToSet(mirror) : e.student = Student /\ e.revlog_id = r.id

\* C30: once the collection has stopped changing, the calls of sync_revlog
\* mirror, after finitely many of them, every row of the revlog whose card is
\* in a deck that the LMS knows.
C30_EventuallyAllMirrored == <>AllMirrored


\* C23: no media file is copied into the student's media directory before
\* the merge has committed: while the merge of the current student has not
\* committed, and when inject_apkg has returned a database error, the
\* directory holds no file that it did not hold when inject_apkg began.
C23_NoMediaBeforeCommit ==
    (pc \in MergePcs \ {"final_count"} \/ (pc = "returned" /\ ret = DatabaseError))
        => media_dir[email].files \subseteq pre.media.files


\* C24: in one call of inject_deck_to_class the archive is extracted once
\* for the whole call: zf.extractall has not run for two students of it.
C24_ExtractedOncePerCall ==
    Cardinality(extracted) <= 1


\* C25: during one injection the target collection is written in exactly
\* one committed transaction: when inject_apkg has reported an import, it has
\* committed once on the student's collection.
C25_OneCommittedWrite ==
    (pc = "returned" /\ ret.ok) => commits = 1


\* No two rows of a table have the same id.
UniqueIds(rows) == \A a, b \in rows : a.id = b.id => a = b

\* The ids of the rows are above the largest id of the rows before.
Above(rows, before) == \A r \in rows : r.id > MaxOf(Ids(before))

\* C26 (as stated): after a committed merge every inserted note id and card
\* id is greater than the largest note id and card id that the target had when
\* the merge started, and no two rows of a table have the same id, whatever
\* the ids of the source.
C26_InsertedIdsAboveMax ==
    Committed =>
        /\ Above(InsertedNotes, pre.col.notes)
        /\ Above(InsertedCards, pre.col.cards)
        /\ UniqueIds(target.notes)
        /\ UniqueIds(target.cards)

\* C26 (amended): after a committed merge no two rows of a table have the
\* same id, whatever the ids of the source; the inserted note ids are above
\* the largest note id that the target had when the source has no negative
\* note id, and likewise the inserted card ids.
C26_InsertedIdsAboveMaxUnlessNegative ==
    Committed =>
        /\ (\A n \in package.notes : n.id >= 0) => Above(InsertedNotes, pre.col.notes)
        /\ (\A c \in package.cards : c.id >= 0) => Above(InsertedCards, pre.col.cards)
        /\ UniqueIds(target.notes)
        /\ UniqueIds(target.cards)

\* A merge has committed a note and a card whose ids in the source were ids
\* of the target too.
C26_Witness ==
    /\ Committed
    /\ \E n \in package.notes :
          n.id \in Ids(pre.col.notes) /\ NewId(n.id, max_note_id) \in Ids(InsertedNotes)
    /\ \E c \in package.cards :
          c.id \in Ids(pre.col.cards) /\ NewId(c.id, max_card_id) \in Ids(InsertedCards)


\* C29: a deck merge replaces and removes no deck of the target: after a
\* committed merge every deck id that the target had when the merge started is
\* a deck id of the target, with the name it had.
C29_DecksKept ==
    Committed =>
        \A d \in DOMAIN pre.col.decks :
            d \in DOMAIN target.decks /\ target.decks[d].name = pre.col.decks[d].name


\* The names in a table of descriptors.
Names(table) == {table[k].name : k \in DOMAIN table}

\* C28: when two injections into the same collection have both reported an
\* import, the collection holds the notetypes and the decks of both packages
\* (by name) and the notes of both (by guid), each with a card.
C28_BothInjectionsKept ==
    (\A p \in Workers : w_pc[p] = "returned" /\ w_ret[p].ok) =>
        \A p \in Workers :
            /\ Names(w_pkg[p].models) \subseteq Names(w_col.models)
            /\ Names(w_pkg[p].decks) \subseteq Names(w_col.decks)
            /\ \A n \in w_pkg[p].notes :
                  \E t \in w_col.notes :
                      t.guid = n.guid /\ \E c \in w_col.cards : c.nid = t.id

\* C22: no update of the sync-users file is lost under concurrent calls.  Once
\* two calls of create_anki_user for different accounts have both returned
\* True, both accounts are in the file under two distinct SYNC_USERn keys, and
\* no call has written to the file while it did not hold the exclusive lock.
C22_NoUserLost ==
    LET lines == u_file.lines
        At(account) == {i \in 1..Len(lines) : lines[i].account = account}
        creates ==
            /\ DOMAIN u_proc = Procs
            /\ \A p \in Procs :
                   /\ u_proc[p].call.name = "create_anki_user"
                   /\ u_proc[p].pc = "returned"
                   /\ u_proc[p].ret
            /\ \A p, q \in Procs :
                   p # q => u_proc[p].call.account # u_proc[q].call.account
    IN  /\ \A p \in DOMAIN u_proc : ~u_proc[p].unlocked_write
        /\ creates =>
               /\ \A p \in Procs : At(u_proc[p].call.account) # {}
               /\ \A p, q \in Procs :
                      p # q =>
                          \A i \in At(u_proc[p].call.account),
                             j \in At(u_proc[q].call.account) :
                              lines[i].n # lines[j].n
=============================================================================
